---- MODULE Spec2Model ----
(***************************************************************************)
(* A model of the Feishu document client of jiang-feishu-mcp.              *)
(*                                                                         *)
(* Part 1 (Spec): the token cache and the request pipeline of              *)
(*   src/src/api/feishu.ts (FeishuClient.getAccessToken, request and the   *)
(*   thin listing/content wrappers) and the getAccessToken of the second   *)
(*   client in src/src/http-server.ts.  Several callers may be suspended   *)
(*   at an await at the same time; every await is one point at which the   *)
(*   other callers and the clock may move.                                 *)
(* Part 2 (SpecDownload): FeishuClient.downloadSpaceDocuments, with the    *)
(*   paged listing, the filter and the sequential per-node download.       *)
(* Part 3 (SpecWiki): one FeishuClient.downloadWikiDocument call with its  *)
(*   getNodeInfo and getContentByType.                                     *)
(* Part 4 (SpecNormalize): DocConverter.processDocContent, the conversion  *)
(*   of a fetched payload to Markdown text (src/unnamed/part_000).         *)
(* Part 5 (SpecStore): InMemoryDatabase, in the TypeScript variant         *)
(*   (src/unnamed/part_002) and the compiled one                           *)
(*   (src/build/database/index.js).                                        *)
(* Part 6 (SpecSanitize): the two sanitizeFileName functions               *)
(*   (src/unnamed/part_000, src/src/server.ts).                            *)
(*   SpecPaging and SpecBatch are the same operation against a server      *)
(*   that hands out a listing in pages, and with the answers kept in a     *)
(*   log.                                                                  *)
(* Part 7 (SpecSearch): the search-documents tool of src/src/server.ts     *)
(*   over a tree of directories and files.                                 *)
(* Part 8 (SpecTools, SpecRestart): the download tools of                  *)
(*   src/src/server.ts, src/src/http-server.ts and src/unnamed/part_001    *)
(*   with the files they write, DocConverter.saveAsMarkdown, and the       *)
(*   process being started again.                                          *)
(* Each part moves its own variables and leaves the others alone.          *)
(*                                                                         *)
(* Time is in milliseconds, as Date.now() is; the reported token lifetime  *)
(* (`expire`) is in seconds.                                               *)
(***************************************************************************)
EXTENDS Integers, Sequences, FiniteSets, TLC

\* ---------------------------------------------------------------- bounds
Tasks == {1, 2}          \* callers that may be suspended at the same time
MaxTicks == 3            \* clock steps in one behaviour
MaxNodes == 5            \* nodes a listing may deliver in total
MaxPageItems == 2        \* items on one listing page

\* ------------------------------------------------------ program constants
MsPerSec == 1000         \* feishu.ts:81, http-server.ts:60    * 1000
MarginSecApi == 5 * 60   \* feishu.ts:81       (5 * 60 * 1000) ms
MarginSecHttp == 300     \* http-server.ts:60  (expire - 300) s
UnknownCode == -1        \* feishu.ts:122      response.data?.code || -1

TickMs == MsPerSec \div 2               \* the clock moves in half seconds

\* ------------------------------------------------------------ value sets
NoToken == "null"                       \* accessToken = null / '' (falsy)
Tokens == {"tokA", "tokB"}              \* tenant_access_token values (non-empty)
Lifetimes == {299, 300, 301, 7200}      \* `expire`, in seconds
Codes == {0, 1, 99991672}               \* envelope codes
UnknownMsg == "unknown error"           \* feishu.ts:121 '未知错误'
Impls == {"api", "http"}                \* feishu.ts / http-server.ts client

None == [kind |-> "none"]

VARIABLES
  impl,             \* which client implementation this run is of
  accessToken,      \* this.accessToken
  tokenExpireTime,  \* this.tokenExpireTime (ms)
  now,              \* Date.now() (ms)
  task,             \* per caller: the frame of the call it is in
  lastGrant,        \* the exchange response that last wrote the cache, and when
  ds,               \* the frame of downloadSpaceDocuments (part 2)
  wd,               \* the frame of one downloadWikiDocument call (part 3)
  norm,             \* DocConverter.processDocContent: payload and result (part 4)
  db,               \* InMemoryDatabase: spaces, documents, nextDocId, last call (part 5)
  san,              \* sanitizeFileName: name and result (part 6)
  srv,              \* the remote server: what it was asked and has answered
  fs,               \* the file system under the save root
  tool              \* the frame of the tool invocation that is running

vars == <<impl, accessToken, tokenExpireTime, now, task, lastGrant, ds,
          wd, norm, db, san, srv, fs, tool>>

\* ------------------------------------------------------------- results
Value(v) == [kind |-> "value", v |-> v]
\* throw new Error(`获取飞书Token失败: ${msg}`)
TokenError(m) == [kind |-> "error", name |-> "TokenFailed", msg |-> m]
\* an axios rejection without a response (network failure)
NetworkError == [kind |-> "error", name |-> "Network"]
\* an axios rejection that carries the response (non-2xx status)
HttpError(c, m) == [kind |-> "error", name |-> "Http", code |-> c, msg |-> m]
\* throw new Error(`API请求失败: ${errorMsg} (错误码: ${errorCode})`)
ApiError(c, m) == [kind |-> "error", name |-> "ApiFailed", code |-> c, msg |-> m]

IsError(r) == r.kind = "error"
IsValue(r) == r.kind = "value"

\* ------------------------------------------------- provider's responses
\* What axios.post(.../tenant_access_token/internal) can settle with: no
\* response, or a body {code, msg, tenant_access_token, expire}.  A body with
\* code 0 carries a non-empty token, as the provider's API promises.
ExchangeResponses ==
  {[kind |-> "neterr"],
   [kind |-> "body", code |-> 1, msg |-> "invalid app", tenant_access_token |-> NoToken,
    expire |-> 0]}
  \cup {[kind |-> "body", code |-> 0, msg |-> "ok",
         tenant_access_token |-> t, expire |-> l] : t \in Tokens, l \in Lifetimes}

\* What axios({method, url, ...}) can settle with: no response at all, a
\* non-2xx status with an envelope, a 2xx status without a body, or a 2xx
\* status with the envelope {code, msg, data}.
ApiResponses ==
  {[kind |-> "neterr"], [kind |-> "nobody"],
   [kind |-> "httperr", code |-> 99991672, msg |-> "Access denied", data |-> "d0"],
   [kind |-> "body", code |-> 0, msg |-> "success", data |-> "d1"],
   [kind |-> "body", code |-> 0, msg |-> "", data |-> "d2"],
   [kind |-> "body", code |-> 99991672, msg |-> "Access denied", data |-> "d0"],
   [kind |-> "body", code |-> 1, msg |-> "", data |-> "d1"],
   [kind |-> "body", code |-> 1, msg |-> "boom", data |-> "d0"]}

\* ------------------------------------------------------ getAccessToken
\* A cache test that still accepts the token at its expiry instant.
TokenValidInclusive(tok, exp, t) == tok # NoToken /\ t <= exp

\* feishu.ts:66 / http-server.ts:46
\*   this.accessToken && Date.now() < this.tokenExpireTime
TokenValid(tok, exp, t) == tok # NoToken /\ t < exp

\* An expiry that takes the margin in the wrong unit (5 * 60 ms).
ExpireTimeApiShortMargin(t, l) == t + (l * MsPerSec) - MarginSecApi

\* feishu.ts:81   Date.now() + (expire * 1000) - (5 * 60 * 1000)
ExpireTimeApi(t, l) == t + (l * MsPerSec) - (MarginSecApi * MsPerSec)

\* http-server.ts:60   Date.now() + (expire - 300) * 1000
ExpireTimeHttp(t, l) == t + (l - MarginSecHttp) * MsPerSec

ExpireTime(i, t, l) == IF i = "api" THEN ExpireTimeApi(t, l) ELSE ExpireTimeHttp(t, l)

\* feishu.ts:76-89: what the call settles with, given the exchange response.
ExchangeOutcome(resp) ==
  IF resp.kind = "neterr" THEN NetworkError
  ELSE IF resp.code = 0 THEN Value(resp.tenant_access_token)
  ELSE TokenError(resp.msg)

\* ------------------------------------------------------------- request
\* An interpretation that forgets to look at the envelope's code.
InterpretBodyUnchecked(resp) ==
  IF resp.kind = "body" THEN Value(resp.data) ELSE ApiError(UnknownCode, UnknownMsg)

\* feishu.ts:117-125: the interpretation of a 2xx response.
InterpretBody(resp) ==
  IF resp.kind = "body" /\ resp.code = 0 THEN Value(resp.data)
  ELSE ApiError(IF resp.kind = "body" /\ resp.code # 0 THEN resp.code ELSE UnknownCode,
                IF resp.kind = "body" /\ resp.msg # "" THEN resp.msg ELSE UnknownMsg)

\* feishu.ts:104-137: what request settles with once axios has settled.
InterpretResponse(resp) ==
  CASE resp.kind = "neterr"  -> NetworkError
    [] resp.kind = "httperr" -> HttpError(resp.code, resp.msg)
    [] OTHER                 -> InterpretBody(resp)

\* feishu.ts:92-138: request awaits the token first; a rejected token
\* acquisition is rethrown by the catch and no API call is made.
RequestOutcome(tokenResult, resp) ==
  IF IsError(tokenResult) THEN tokenResult ELSE InterpretResponse(resp)

\* The wrappers getSpaces (142-161), getNodes (165-189), getDocumentContent
\* (221-234) and searchWiki (345-367) `return this.request(...)` without an
\* await: the promise leaves the try block unsettled, so the catch block never
\* sees a rejection and the wrapper settles exactly as request does.
Wrappers == {"getSpaces", "getNodes", "getDocumentContent", "searchWiki"}

WrapperOutcome(o, r) == r

RequestOps == {"request"} \cup Wrappers

\* ------------------------------------------------------------- frames
\* issued / apiIssued count the exchange and API requests the call has sent;
\* exchange is getAccessToken's local `response`, gone when it has returned
\* into request; response is request's local `response`.
IdleFrame ==
  [op |-> "none", pc |-> "idle", issued |-> 0, apiIssued |-> 0,
   exchange |-> None, tokenResult |-> None, response |-> None, result |-> None]

Init ==
  /\ impl \in Impls
  /\ accessToken = NoToken
  /\ tokenExpireTime = 0
  /\ now = 0
  /\ task = [p \in Tasks |-> IdleFrame]
  /\ lastGrant = None
  /\ ds = None
  /\ wd = None
  /\ norm = None
  /\ db = None
  /\ srv = None
  /\ fs = None
  /\ tool = None
  /\ san = None

\* After the token has been obtained: getAccessToken itself returns it;
\* request goes on to issue the API call (feishu.ts:94, 104).
WithToken(f, tok) ==
  IF f.op = "getAccessToken"
  THEN [f EXCEPT !.pc = "returned", !.tokenResult = Value(tok), !.result = Value(tok)]
  ELSE [f EXCEPT !.pc = "calling", !.tokenResult = Value(tok), !.exchange = None,
                 !.apiIssued = @ + 1]

\* After the token acquisition has thrown: every operation rethrows
\* (feishu.ts:86-89, 126-137).
WithoutToken(f, err) ==
  [f EXCEPT !.pc = "returned", !.tokenResult = err, !.result = err]

\* getAccessToken up to its first await.  feishu.ts:64-71, http-server.ts:44-52
GetAccessTokenEnter(f) ==
  IF TokenValid(accessToken, tokenExpireTime, now)
  THEN WithToken(f, accessToken)
  ELSE [f EXCEPT !.pc = "exchanging", !.issued = @ + 1]

\* A caller enters operation o; the code runs up to its first await.
Call(p, o) ==
  /\ task[p].pc = "idle"
  /\ task' = [task EXCEPT ![p] = GetAccessTokenEnter([IdleFrame EXCEPT !.op = o])]
  /\ UNCHANGED <<impl, accessToken, tokenExpireTime, now, lastGrant, ds, wd, norm, db, san, srv, fs, tool>>

\* A resume that answers a failed exchange by sending the request again.
GetAccessTokenResumeRetry(p, resp) ==
  LET r == ExchangeOutcome(resp)
      f == [task[p] EXCEPT !.exchange = resp]
  IN IF IsValue(r)
     THEN /\ accessToken' = r.v
          /\ tokenExpireTime' = ExpireTime(impl, now, resp.expire)
          /\ lastGrant' = [kind |-> "grant", response |-> resp, at |-> now]
          /\ task' = [task EXCEPT ![p] = WithToken(f, r.v)]
     ELSE /\ task' = [task EXCEPT ![p] = [f EXCEPT !.issued = @ + 1]]
          /\ UNCHANGED <<accessToken, tokenExpireTime, lastGrant>>

\* A resume that stores the token of the response before it looks at the
\* code, so a refused exchange overwrites the cached token.
GetAccessTokenResumeEagerStore(p, resp) ==
  LET r == ExchangeOutcome(resp)
      f == [task[p] EXCEPT !.exchange = resp]
  IN IF IsValue(r)
     THEN /\ accessToken' = r.v
          /\ tokenExpireTime' = ExpireTime(impl, now, resp.expire)
          /\ lastGrant' = [kind |-> "grant", response |-> resp, at |-> now]
          /\ task' = [task EXCEPT ![p] = WithToken(f, r.v)]
     ELSE /\ accessToken' = IF resp.kind = "body" THEN resp.tenant_access_token
                                                  ELSE accessToken
          /\ task' = [task EXCEPT ![p] = WithoutToken(f, r)]
          /\ UNCHANGED <<tokenExpireTime, lastGrant>>

\* The exchange settles with resp and getAccessToken resumes.
\* feishu.ts:76-89, http-server.ts:57-68
GetAccessTokenResume(p, resp) ==
  LET r == ExchangeOutcome(resp)
      f == [task[p] EXCEPT !.exchange = resp]
  IN IF IsValue(r)
     THEN /\ accessToken' = r.v
          /\ tokenExpireTime' = ExpireTime(impl, now, resp.expire)
          /\ lastGrant' = [kind |-> "grant", response |-> resp, at |-> now]
          /\ task' = [task EXCEPT ![p] = WithToken(f, r.v)]
     ELSE /\ task' = [task EXCEPT ![p] = WithoutToken(f, r)]
          /\ UNCHANGED <<accessToken, tokenExpireTime, lastGrant>>

ExchangeSettles(p) ==
  /\ task[p].pc = "exchanging"
  /\ \E resp \in ExchangeResponses : GetAccessTokenResume(p, resp)
  /\ UNCHANGED <<impl, now, ds, wd, norm, db, san, srv, fs, tool>>

\* The API call settles with resp and request (and its wrapper) resumes.
\* feishu.ts:115-137
RequestResume(f, resp) ==
  LET r == RequestOutcome(f.tokenResult, resp) IN
  [f EXCEPT !.pc = "returned", !.response = resp,
            !.result = IF f.op \in Wrappers THEN WrapperOutcome(f.op, r) ELSE r]

ApiSettles(p) ==
  /\ task[p].pc = "calling"
  /\ \E resp \in ApiResponses :
       task' = [task EXCEPT ![p] = RequestResume(task[p], resp)]
  /\ UNCHANGED <<impl, accessToken, tokenExpireTime, now, lastGrant, ds, wd, norm, db, san, srv, fs, tool>>

\* The caller has consumed the result; its frame is gone.
Finish(p) ==
  /\ task[p].pc = "returned"
  /\ task' = [task EXCEPT ![p] = IdleFrame]
  /\ UNCHANGED <<impl, accessToken, tokenExpireTime, now, lastGrant, ds, wd, norm, db, san, srv, fs, tool>>

\* Time passes.
Tick ==
  /\ now + TickMs <= MaxTicks * TickMs
  /\ now' = now + TickMs
  /\ UNCHANGED <<impl, accessToken, tokenExpireTime, task, lastGrant, ds, wd, norm, db, san, srv, fs, tool>>

\* The token cache of either client under concurrent getAccessToken calls.
Next ==
  \/ \E p \in Tasks : Call(p, "getAccessToken")
  \/ \E p \in Tasks : ExchangeSettles(p)
  \/ \E p \in Tasks : Finish(p)
  \/ Tick

Spec == Init /\ [][Next]_vars

\* The request pipeline of feishu.ts (the http-server.ts client has none).
InitRequest == Init /\ impl = "api"

NextRequest ==
  \/ \E p \in Tasks, o \in RequestOps : Call(p, o)
  \/ \E p \in Tasks : ExchangeSettles(p)
  \/ \E p \in Tasks : ApiSettles(p)
  \/ \E p \in Tasks : Finish(p)

SpecRequest == InitRequest /\ [][NextRequest]_vars

\* ==================================================================
\* Part 2: FeishuClient.downloadSpaceDocuments  (feishu.ts:292-341)
\* ==================================================================
Undefined == "undefined"                \* a field the response does not have

\* The nodes the remote space may list (feishu.ts:11-25 NodeResponse.items).
ListedNodes ==
  {[node_token |-> "n1", obj_type |-> "doc"],
   [node_token |-> "n2", obj_type |-> "sheet"],
   [node_token |-> "n3", obj_type |-> "folder"]}

SeqsUpTo(S, n) == UNION {[1..k -> S] : k \in 0..n}

Min(a, b) == IF a < b THEN a ELSE b

\* The listing pages a server may answer with while `room` more nodes fit
\* the model: any items, any has_more, a token that is set, empty or absent.
Pages(room) ==
  [items : SeqsUpTo(ListedNodes, Min(MaxPageItems, room)),
   page_token : {"t1", "", Undefined},
   has_more : BOOLEAN]

\* What getAccessToken settles with inside request (part 1).
TokenResults == {Value("tokA"), TokenError("invalid app")}

\* What a request of operation o settles with when the data of a successful
\* envelope is drawn from `datas`: request and wrapper as in part 1.
Outcomes(o, datas) ==
  {IF o \in Wrappers THEN WrapperOutcome(o, RequestOutcome(tr, resp))
                     ELSE RequestOutcome(tr, resp) :
     tr \in TokenResults,
     resp \in {[kind |-> "neterr"],
               [kind |-> "body", code |-> 99991672, msg |-> "Access denied", data |-> None]}
              \cup {[kind |-> "body", code |-> 0, msg |-> "success", data |-> d] : d \in datas}}

\* The data of get_node answers: no node, an incomplete node, or a node of
\* some object type.
NodeInfos ==
  {[node |-> None]}
  \cup {[node |-> [kind |-> "node", obj_token |-> "", obj_type |-> "doc", title |-> "T"]],
        [node |-> [kind |-> "node", obj_token |-> "obj", obj_type |-> "", title |-> "T"]]}
  \cup {[node |-> [kind |-> "node", obj_token |-> "obj", obj_type |-> ty, title |-> "T"]] :
          ty \in {"doc", "DOC", "sheet", "bitable", "mindnote"}}
  \cup {[node |-> [kind |-> "node", obj_token |-> "obj2", obj_type |-> "doc", title |-> ""]]}

\* The data of raw_content answers.
Contents == {[content |-> "text", revision |-> 1], [content |-> "", revision |-> 1]}

\* String.prototype.toLowerCase on the object types above.  feishu.ts:242
ToLowerCase(ty) == IF ty = "DOC" THEN "doc" ELSE ty

\* feishu.ts:230-232, 255-257   { content: '', revision: 0 }
EmptyContent == [content |-> "", revision |-> 0]

\* A dispatch without the catch of lines 254-258: the throw of an unsupported
\* type reaches the caller.
GetContentByTypeNoCatch(objToken, objType) ==
  IF ToLowerCase(objType) = "doc"
  THEN [kind |-> "request", obj_token |-> objToken, obj_type |-> objType]
  ELSE [kind |-> "error", name |-> "Unsupported", msg |-> objType]

\* feishu.ts:238-258 getContentByType, up to its first await: the 'doc' case
\* returns the promise of the raw_content request; 'sheet', 'bitable' and the
\* default case throw inside the try and the catch returns empty content.
GetContentByType(objToken, objType) ==
  IF ToLowerCase(objType) = "doc"
  THEN [kind |-> "request", obj_token |-> objToken, obj_type |-> objType]
  ELSE Value(EmptyContent)

\* A filter that compares the type without regard to case.
IsDocNodeAnyCase(n) == ToLowerCase(n.obj_type) \in {"doc", "sheet", "bitable"}

\* feishu.ts:316-318
IsDocNode(n) == n.obj_type = "doc" \/ n.obj_type = "sheet" \/ n.obj_type = "bitable"

\* feishu.ts:304   response.page_token || ''
PageTokenOf(page) == IF page.page_token = Undefined THEN "" ELSE page.page_token

\* The listing requests sent are counted up to this many.
MaxCount == 4
Bump(n) == Min(n + 1, MaxCount)

\* The frame before the call: feishu.ts:297-299, 322-323.  inflight counts the
\* requests of the batch that have been sent and have not settled.
DsStart ==
  [pc |-> "start", stage |-> "listing",
   allNodes |-> <<>>, pageToken |-> "", hasMore |-> TRUE,
   listRequests |-> 0, delivered |-> <<>>,
   docNodes |-> <<>>, idx |-> 0, downloaded |-> 0, failed |-> 0,
   dlResults |-> <<>>, response |-> None, contentReq |-> None, result |-> None,
   inflight |-> 0]

InitDownload ==
  /\ impl = "api"
  /\ accessToken = NoToken
  /\ tokenExpireTime = 0
  /\ now = 0
  /\ task = [p \in Tasks |-> IdleFrame]
  /\ lastGrant = None
  /\ ds = DsStart
  /\ wd = None
  /\ norm = None
  /\ db = None
  /\ srv = None
  /\ fs = None
  /\ tool = None
  /\ san = None

\* feishu.ts:326-328: the loop calls downloadWikiDocument for node i, which
\* sends the get_node request (267) and waits.
StartItem(f, i) ==
  [f EXCEPT !.pc = "nodeInfoWait", !.idx = i, !.contentReq = None,
            !.inflight = @ + 1]

\* feishu.ts:336
Return(f) ==
  [f EXCEPT !.pc = "done", !.stage = "over",
            !.result = [downloaded |-> f.downloaded, total |-> Len(f.docNodes),
                        failed |-> f.failed]]

\* A batch that starts the download of every filtered node at once
\* (docNodes.map without an await in between).
BeginDownloadsAllAtOnce(f) ==
  LET g == [f EXCEPT !.stage = "download",
                     !.docNodes = SelectSeq(f.allNodes, IsDocNode)]
  IN IF g.docNodes = <<>> THEN Return(g)
     ELSE [StartItem(g, 1) EXCEPT !.inflight = Len(g.docNodes)]

\* feishu.ts:313-326: the listing is over; filter, then start the loop.
BeginDownloads(f) ==
  LET g == [f EXCEPT !.stage = "download",
                     !.docNodes = SelectSeq(f.allNodes, IsDocNode)]
  IN IF g.docNodes = <<>> THEN Return(g) ELSE StartItem(g, 1)

\* A loop body that does not leave on an empty page token.
ListResumeNoBreak(f, r) ==
  IF IsError(r)
  THEN [f EXCEPT !.pc = "raised", !.result = r]
  ELSE LET g == [f EXCEPT !.allNodes = f.allNodes \o r.v.items,
                          !.pageToken = PageTokenOf(r.v),
                          !.hasMore = r.v.has_more]
       IN IF g.hasMore
          THEN [g EXCEPT !.pc = "listWait", !.listRequests = Bump(@),
                         !.inflight = @ + 1]
          ELSE BeginDownloads(g)

\* A loop body that keeps the token of the first page for every later request.
ListResumeStaleToken(f, r) ==
  IF IsError(r)
  THEN [f EXCEPT !.pc = "raised", !.result = r]
  ELSE LET g == [f EXCEPT !.allNodes = f.allNodes \o r.v.items,
                          !.pageToken = IF f.pageToken = "" THEN PageTokenOf(r.v)
                                                            ELSE f.pageToken,
                          !.hasMore = r.v.has_more]
       IN IF g.pageToken = "" THEN BeginDownloads(g)
          ELSE IF g.hasMore
          THEN [g EXCEPT !.pc = "listWait", !.listRequests = Bump(@),
                         !.inflight = @ + 1]
          ELSE BeginDownloads(g)

\* feishu.ts:301-311: getNodes has settled with r.  A rejection leaves the
\* function through the outer catch (337-340).
ListResume(f, r) ==
  IF IsError(r)
  THEN [f EXCEPT !.pc = "raised", !.result = r]
  ELSE LET g == [f EXCEPT !.allNodes = f.allNodes \o r.v.items,
                          !.pageToken = PageTokenOf(r.v),
                          !.hasMore = r.v.has_more]
       IN IF g.pageToken = "" THEN BeginDownloads(g)
          ELSE IF g.hasMore
          THEN [g EXCEPT !.pc = "listWait", !.listRequests = Bump(@),
                         !.inflight = @ + 1]
          ELSE BeginDownloads(g)

\* A loop whose catch gives up the batch on the first failed item.
AfterItemAbort(f, ok) ==
  LET g == [f EXCEPT !.dlResults = Append(@, IF ok THEN "ok" ELSE "error"),
                     !.downloaded = IF ok THEN @ + 1 ELSE @]
  IN IF ~ok THEN [g EXCEPT !.pc = "raised"]
     ELSE IF f.idx < Len(f.docNodes) THEN StartItem(g, f.idx + 1) ELSE Return(g)

\* feishu.ts:326-334: downloadWikiDocument for the current node has settled
\* (ok: resolved, otherwise rejected); count it and go on with the next node.
AfterItem(f, ok) ==
  LET g == [f EXCEPT !.dlResults = Append(@, IF ok THEN "ok" ELSE "error"),
                     !.downloaded = IF ok THEN @ + 1 ELSE @,
                     !.failed = IF ok THEN @ ELSE @ + 1]
  IN IF f.idx < Len(f.docNodes) THEN StartItem(g, f.idx + 1) ELSE Return(g)

\* feishu.ts:267-283 with getContentByType (238-258): getNodeInfo has settled
\* with r.  Only the 'doc' branch sends a request; its promise is returned
\* without an await.  The other branches throw inside the try and are caught
\* there: empty content, and downloadWikiDocument resolves.
NodeInfoResume(f, r) ==
  IF IsError(r) THEN AfterItem(f, FALSE)
  ELSE IF r.v.node = None THEN AfterItem(f, FALSE)
  ELSE IF r.v.node.obj_token = "" \/ r.v.node.obj_type = "" THEN AfterItem(f, FALSE)
  ELSE LET d == GetContentByType(r.v.node.obj_token, r.v.node.obj_type)
       IN IF d.kind = "request"
          THEN [f EXCEPT !.pc = "contentWait",
                         !.contentReq = [obj_token |-> d.obj_token,
                                         obj_type |-> d.obj_type],
                         !.inflight = @ + 1]
          ELSE AfterItem(f, IsValue(d))

\* feishu.ts:280-283: the raw_content request has settled with r; a rejection
\* passes through getDocumentContent and getContentByType.
ContentResume(f, r) == AfterItem(f, IsValue(r))

Room == MaxNodes - Len(ds.delivered)

\* feishu.ts:292-302: the call, up to the first getNodes request.
DsCall ==
  /\ ds.pc = "start"
  /\ ds' = [ds EXCEPT !.pc = "listWait", !.listRequests = Bump(@),
                       !.inflight = @ + 1]
  /\ UNCHANGED <<impl, accessToken, tokenExpireTime, now, task, lastGrant, wd, norm, db, san, srv, fs, tool>>

\* The getNodes request of line 302 settles with r; `delivered` keeps what
\* the server has handed over so far.
DsListSettles ==
  /\ ds.pc = "listWait"
  /\ \E r \in Outcomes("getNodes", Pages(Room)) :
       ds' = [ds EXCEPT !.pc = "listed", !.response = r, !.inflight = @ - 1,
                        !.delivered = IF IsValue(r) THEN @ \o r.v.items ELSE @]
  /\ UNCHANGED <<impl, accessToken, tokenExpireTime, now, task, lastGrant, wd, norm, db, san, srv, fs, tool>>

\* The loop body goes on after the await.  feishu.ts:303-311
DsListResume ==
  /\ ds.pc = "listed"
  /\ ds' = ListResume([ds EXCEPT !.response = None], ds.response)
  /\ UNCHANGED <<impl, accessToken, tokenExpireTime, now, task, lastGrant, wd, norm, db, san, srv, fs, tool>>

DsNodeInfoSettles ==
  /\ ds.pc = "nodeInfoWait"
  /\ \E r \in Outcomes("getNodeInfo", NodeInfos) :
       ds' = NodeInfoResume([ds EXCEPT !.inflight = @ - 1], r)
  /\ UNCHANGED <<impl, accessToken, tokenExpireTime, now, task, lastGrant, wd, norm, db, san, srv, fs, tool>>

DsContentSettles ==
  /\ ds.pc = "contentWait"
  /\ \E r \in Outcomes("getDocumentContent", Contents) :
       ds' = ContentResume([ds EXCEPT !.inflight = @ - 1], r)
  /\ UNCHANGED <<impl, accessToken, tokenExpireTime, now, task, lastGrant, wd, norm, db, san, srv, fs, tool>>

NextDownload ==
  \/ DsCall
  \/ DsListSettles
  \/ DsListResume
  \/ DsNodeInfoSettles
  \/ DsContentSettles

SpecDownload == InitDownload /\ [][NextDownload]_vars

\* The event loop keeps running and the server keeps answering: a step that
\* can be taken is taken.
SpecDownloadFair == SpecDownload /\ WF_vars(NextDownload)

\* ------------------------------------------------------------------
\* downloadSpaceDocuments against a server that pages its listing as the
\* provider documents it (SpecPaging): the page after the one that carried
\* token t is asked for with t; every page but the last says has_more = true
\* and carries the token of the next one.
\* ------------------------------------------------------------------
MaxPages == 3                           \* pages of one listing

\* The token that page i carries, for i below the last page.
PagingToken(i) == "t" \o ToString(i)

\* The number of the page that carried token t (0: the empty token).
TokenIndex(t) ==
  IF t = "" THEN 0 ELSE CHOOSE i \in 1..MaxPages : PagingToken(i) = t

\* The items one page of this server holds.
PagingItems ==
  {<<>>,
   <<[node_token |-> "n1", obj_type |-> "doc"]>>,
   <<[node_token |-> "n3", obj_type |-> "folder"],
     [node_token |-> "n2", obj_type |-> "sheet"]>>}

\* The pages the server may answer a request carrying token t with: page
\* number i = TokenIndex(t) + 1, as a further or as the last page.
PagingAnswers(t, room) ==
  LET i == TokenIndex(t) + 1
      items == {s \in PagingItems : Len(s) <= room}
  IN {[items |-> s, page_token |-> PagingToken(i), has_more |-> TRUE] :
        s \in IF i < MaxPages THEN items ELSE {}}
     \cup [items : items, page_token : {"", Undefined, PagingToken(i)},
           has_more : {FALSE}]

\* feishu.ts:302, 176-180: the token the request in flight carries is the
\* value pageToken had when getNodes was called; the frame does not change
\* while the call waits.
SentPageToken(f) == f.pageToken

InitPaging ==
  /\ impl = "api"
  /\ accessToken = NoToken
  /\ tokenExpireTime = 0
  /\ now = 0
  /\ task = [t \in Tasks |-> IdleFrame]
  /\ lastGrant = None
  /\ ds = DsStart
  /\ wd = None
  /\ norm = None
  /\ db = None
  /\ san = None
  /\ srv = [log |-> <<>>]
  /\ fs = None
  /\ tool = None

\* The getNodes request of line 302 is answered with a page; the server keeps
\* the token it was asked with and the page it gave.
PagedListSettles ==
  /\ ds.pc = "listWait"
  /\ Len(srv.log) < MaxCount
  /\ \E page \in PagingAnswers(SentPageToken(ds), Room) :
       LET r == WrapperOutcome("getNodes",
                  RequestOutcome(Value("tokA"),
                    [kind |-> "body", code |-> 0, msg |-> "success", data |-> page]))
       IN /\ ds' = [ds EXCEPT !.pc = "listed", !.response = r, !.inflight = @ - 1,
                               !.delivered = @ \o r.v.items]
          /\ srv' = [srv EXCEPT !.log = Append(@, [token |-> SentPageToken(ds),
                                                   page |-> page])]
  /\ UNCHANGED <<impl, accessToken, tokenExpireTime, now, task, lastGrant, wd, norm,
                 db, san, fs, tool>>

NextPaging ==
  \/ DsCall
  \/ PagedListSettles
  \/ DsListResume
  \/ DsNodeInfoSettles
  \/ DsContentSettles

SpecPaging == InitPaging /\ [][NextPaging]_vars

\* ------------------------------------------------------------------
\* downloadSpaceDocuments with the server's answers kept (SpecBatch): one
\* listing page, then for every attempted node what get_node and raw_content
\* were answered with.
\* ------------------------------------------------------------------
\* The listed nodes, by obj_type: the three accepted types and near misses.
BatchNode(ty) == [node_token |-> "n_" \o ty, obj_type |-> ty]

\* The listings the server may hold.
BatchListings ==
  {<<>>,
   <<BatchNode("doc"), BatchNode("DOC")>>,
   <<BatchNode("docx"), BatchNode("sheet")>>,
   <<BatchNode("bitable"), BatchNode("folder")>>,
   <<BatchNode("sheet"), BatchNode("doc")>>,
   <<BatchNode("folder")>>}

InitBatch ==
  /\ impl = "api"
  /\ accessToken = NoToken
  /\ tokenExpireTime = 0
  /\ now = 0
  /\ task = [t \in Tasks |-> IdleFrame]
  /\ lastGrant = None
  /\ ds = DsStart
  /\ wd = None
  /\ norm = None
  /\ db = None
  /\ san = None
  /\ srv = [log |-> <<>>]
  /\ fs = None
  /\ tool = None

\* The getNodes request of line 302 is answered with the whole listing.
BatchListSettles ==
  /\ ds.pc = "listWait"
  /\ \E items \in BatchListings :
       ds' = [ds EXCEPT !.pc = "listed", !.inflight = @ - 1,
                        !.response = Value([items |-> items, page_token |-> Undefined,
                                            has_more |-> FALSE]),
                        !.delivered = @ \o items]
  /\ UNCHANGED <<impl, accessToken, tokenExpireTime, now, task, lastGrant, wd, norm,
                 db, san, srv, fs, tool>>

\* feishu.ts:328, 267: the get_node request for the current node settles with
\* r; the server keeps the node it was asked for and its answer.
BatchNodeInfoSettles ==
  /\ ds.pc = "nodeInfoWait"
  /\ \E r \in Outcomes("getNodeInfo", NodeInfos) :
       /\ ds' = NodeInfoResume([ds EXCEPT !.inflight = @ - 1], r)
       /\ srv' = [srv EXCEPT !.log = Append(@, [node |-> ds.docNodes[ds.idx],
                                                info |-> r, content |-> None])]
  /\ UNCHANGED <<impl, accessToken, tokenExpireTime, now, task, lastGrant, wd, norm,
                 db, san, fs, tool>>

\* feishu.ts:280, 225: the raw_content request for the current node settles
\* with r.
BatchContentSettles ==
  /\ ds.pc = "contentWait"
  /\ \E r \in Outcomes("getDocumentContent", Contents) :
       /\ ds' = ContentResume([ds EXCEPT !.inflight = @ - 1], r)
       /\ srv' = [srv EXCEPT !.log[Len(srv.log)].content = r]
  /\ UNCHANGED <<impl, accessToken, tokenExpireTime, now, task, lastGrant, wd, norm,
                 db, san, fs, tool>>

NextBatch ==
  \/ DsCall
  \/ BatchListSettles
  \/ DsListResume
  \/ BatchNodeInfoSettles
  \/ BatchContentSettles

SpecBatch == InitBatch /\ [][NextBatch]_vars

\* ==================================================================
\* Part 3: downloadWikiDocument, one call at a time (SpecWiki)
\* ==================================================================
MaxWikiCalls == 1                       \* calls after the first one

NodeTokens == {n.node_token : n \in ListedNodes}
UntitledDoc == "untitled"               \* feishu.ts:285 '未命名文档'

\* throw new Error('获取节点信息失败')                 feishu.ts:269-271
NoNodeInfoError == [kind |-> "error", name |-> "NoNodeInfo"]
\* throw new Error('节点信息中缺少必要的字段')          feishu.ts:275-277
MissingFieldsError == [kind |-> "error", name |-> "MissingFields"]

\* The frame before the call.  requests lists the remote requests the call
\* has sent, in order; calls counts the calls that have returned.
WdStart ==
  [pc |-> "start", nodeToken |-> "", nodeInfo |-> None, contentReq |-> None,
   contentRes |-> None, requests |-> <<>>, result |-> None, calls |-> 0]

InitWiki ==
  /\ impl = "api"
  /\ accessToken = NoToken
  /\ tokenExpireTime = 0
  /\ now = 0
  /\ task = [p \in Tasks |-> IdleFrame]
  /\ lastGrant = None
  /\ ds = None
  /\ wd = WdStart
  /\ norm = None
  /\ db = None
  /\ srv = None
  /\ fs = None
  /\ tool = None
  /\ san = None

\* feishu.ts:286-288: the catch logs and rethrows.
WikiRaise(f, e) == [f EXCEPT !.pc = "done", !.result = e]

\* feishu.ts:280-285: getContentByType has settled with c.
\*   content = contentResponse.content || '';  title: title || '未命名文档'
WikiContentResume(f, c) ==
  IF IsError(c) THEN WikiRaise([f EXCEPT !.contentRes = c], c)
  ELSE LET title == f.nodeInfo.v.node.title
       IN [f EXCEPT !.pc = "done", !.contentRes = c,
                    !.result = Value([content |-> c.v.content,
                                      title |-> IF title = "" THEN UntitledDoc
                                                ELSE title])]

\* A downloadWikiDocument that answers a failed node resolution with an empty
\* document instead of rethrowing.
WikiNodeInfoResumeDegrading(f, r) ==
  IF IsError(r) \/ r.v.node = None
  THEN [f EXCEPT !.pc = "done",
                 !.result = Value([content |-> "", title |-> UntitledDoc])]
  ELSE IF r.v.node.obj_token = "" \/ r.v.node.obj_type = ""
  THEN WikiRaise(f, MissingFieldsError)
  ELSE LET d == GetContentByType(r.v.node.obj_token, r.v.node.obj_type)
       IN IF d.kind = "request"
          THEN [f EXCEPT !.pc = "contentWait",
                         !.contentReq = [obj_token |-> d.obj_token,
                                         obj_type |-> d.obj_type],
                         !.requests = Append(@, "raw_content")]
          ELSE WikiContentResume(f, d)

\* feishu.ts:267-280: getNodeInfo has settled with r (kept in f.nodeInfo).
WikiNodeInfoResume(f, r) ==
  IF IsError(r) THEN WikiRaise(f, r)
  ELSE IF r.v.node = None THEN WikiRaise(f, NoNodeInfoError)
  ELSE IF r.v.node.obj_token = "" \/ r.v.node.obj_type = ""
  THEN WikiRaise(f, MissingFieldsError)
  ELSE LET d == GetContentByType(r.v.node.obj_token, r.v.node.obj_type)
       IN IF d.kind = "request"
          THEN [f EXCEPT !.pc = "contentWait",
                         !.contentReq = [obj_token |-> d.obj_token,
                                         obj_type |-> d.obj_type],
                         !.requests = Append(@, "raw_content")]
          ELSE WikiContentResume(f, d)

WikiFrame == <<impl, accessToken, tokenExpireTime, now, task, lastGrant, ds,
               norm, db, san, srv, fs, tool>>

\* feishu.ts:262-267: the call, up to the get_node request of getNodeInfo
\* (193-201).
WdCall ==
  /\ wd.pc = "start"
  /\ \E t \in NodeTokens :
       wd' = [wd EXCEPT !.pc = "nodeInfoWait", !.nodeToken = t,
                        !.requests = <<"get_node">>]
  /\ UNCHANGED WikiFrame

WdNodeInfoSettles ==
  /\ wd.pc = "nodeInfoWait"
  /\ \E r \in Outcomes("getNodeInfo", NodeInfos) :
       wd' = WikiNodeInfoResume([wd EXCEPT !.nodeInfo = r], r)
  /\ UNCHANGED WikiFrame

\* The raw_content request of getDocumentContent (221-234) settles.
WdContentSettles ==
  /\ wd.pc = "contentWait"
  /\ \E r \in Outcomes("getDocumentContent", Contents) :
       wd' = WikiContentResume(wd, r)
  /\ UNCHANGED WikiFrame

\* The caller has the result and may call again.
WdReturn ==
  /\ wd.pc = "done"
  /\ wd.calls < MaxWikiCalls
  /\ wd' = [WdStart EXCEPT !.calls = wd.calls + 1]
  /\ UNCHANGED WikiFrame

NextWiki ==
  \/ WdCall
  \/ WdNodeInfoSettles
  \/ WdContentSettles
  \/ WdReturn

SpecWiki == InitWiki /\ [][NextWiki]_vars

\* ==================================================================
\* Part 4: DocConverter.processDocContent (SpecNormalize)
\* ==================================================================
MaxBlocks == 2                          \* blocks in one block list
MaxRows == 2                            \* rows in one sheet
MaxSheets == 2                          \* sheets in one `sheets` list

\* ------------------------------------------------- JavaScript values
\* An object is the sequence of its <<key, value>> properties, in order.
JNull == [t |-> "null"]
JUndefined == [t |-> "undefined"]
JFunction == [t |-> "function"]         \* Array.prototype.values
JStr(s) == [t |-> "string", s |-> s]
JNum(n) == [t |-> "number", n |-> n]
JBool(b) == [t |-> "boolean", b |-> b]
JArr(a) == [t |-> "array", a |-> a]
JObj(o) == [t |-> "object", o |-> o]

Nullish(v) == v.t \in {"null", "undefined"}

\* ToBoolean, as `if (x)` and `x || y` apply it.
Truthy(v) ==
  CASE v.t \in {"null", "undefined"} -> FALSE
    [] v.t = "string" -> v.s # ""
    [] v.t = "number" -> v.n # 0
    [] v.t = "boolean" -> v.b
    [] OTHER -> TRUE

HasKey(o, k) == \E i \in 1..Len(o) : o[i][1] = k

\* v.k for a v that is neither null nor undefined, for the property names
\* processDocContent reads.
Get(v, k) ==
  IF v.t = "object"
  THEN IF HasKey(v.o, k)
       THEN v.o[CHOOSE i \in 1..Len(v.o) : v.o[i][1] = k][2]
       ELSE JUndefined
  ELSE IF v.t = "array" /\ k = "length" THEN JNum(Len(v.a))
  ELSE IF v.t = "string" /\ k = "length" THEN JNum(Len(v.s))
  ELSE IF v.t = "array" /\ k = "values" THEN JFunction
  ELSE IF v.t = "function" /\ k = "length" THEN JNum(0)
  ELSE JUndefined

Ok(s) == [ok |-> TRUE, s |-> s]
Throw(m) == [ok |-> FALSE, msg |-> m]

\* The message of the TypeError of v.k for a null or undefined v.
TypeErrorRead(v, k) ==
  "Cannot read properties of " \o v.t \o " (reading '" \o k \o "')"

RECURSIVE ToStr(_)
RECURSIVE JoinWith(_, _)
\* ToString, as string concatenation and template literals apply it.
ToStr(v) ==
  CASE v.t = "string" -> v.s
    [] v.t = "number" -> ToString(v.n)
    [] v.t = "boolean" -> IF v.b THEN "true" ELSE "false"
    [] v.t = "array" -> JoinWith(v.a, ",")
    [] v.t = "object" -> "[object Object]"
    [] OTHER -> v.t

\* Array.prototype.join: null and undefined elements give the empty string.
JoinWith(a, sep) ==
  IF a = <<>> THEN ""
  ELSE LET h == IF Nullish(a[1]) THEN "" ELSE ToStr(a[1])
       IN IF Len(a) = 1 THEN h ELSE h \o sep \o JoinWith(Tail(a), sep)

RECURSIVE Repeat(_, _)
\* String.prototype.repeat for a count >= 0.
Repeat(s, n) == IF n = 0 THEN "" ELSE s \o Repeat(s, n - 1)

Indent(d) == Repeat("  ", d)

RECURSIVE Stringify(_)
RECURSIVE StringifyElems(_)
RECURSIVE StringifyProps(_)
\* JSON.stringify(v) of a JSON value.
Stringify(v) ==
  CASE v.t = "string" -> "\"" \o v.s \o "\""
    [] v.t = "number" -> ToString(v.n)
    [] v.t = "boolean" -> IF v.b THEN "true" ELSE "false"
    [] v.t = "array" -> "[" \o StringifyElems(v.a) \o "]"
    [] v.t = "object" -> "{" \o StringifyProps(v.o) \o "}"
    [] OTHER -> "null"

StringifyElems(a) ==
  IF a = <<>> THEN ""
  ELSE IF Len(a) = 1 THEN Stringify(a[1])
  ELSE Stringify(a[1]) \o "," \o StringifyElems(Tail(a))

StringifyProps(o) ==
  IF o = <<>> THEN ""
  ELSE LET h == "\"" \o o[1][1] \o "\":" \o Stringify(o[1][2])
       IN IF Len(o) = 1 THEN h ELSE h \o "," \o StringifyProps(Tail(o))

RECURSIVE Stringify2(_, _)
RECURSIVE Stringify2Elems(_, _)
RECURSIVE Stringify2Props(_, _)
\* JSON.stringify(v, null, 2) of a JSON value nested d levels deep.
Stringify2(v, d) ==
  CASE v.t = "array" ->
         IF v.a = <<>> THEN "[]"
         ELSE "[\n" \o Stringify2Elems(v.a, d + 1) \o "\n" \o Indent(d) \o "]"
    [] v.t = "object" ->
         IF v.o = <<>> THEN "{}"
         ELSE "{\n" \o Stringify2Props(v.o, d + 1) \o "\n" \o Indent(d) \o "}"
    [] OTHER -> Stringify(v)

Stringify2Elems(a, d) ==
  LET h == Indent(d) \o Stringify2(a[1], d)
  IN IF Len(a) = 1 THEN h ELSE h \o ",\n" \o Stringify2Elems(Tail(a), d)

Stringify2Props(o, d) ==
  LET h == Indent(d) \o "\"" \o o[1][1] \o "\": " \o Stringify2(o[1][2], d)
  IN IF Len(o) = 1 THEN h ELSE h \o ",\n" \o Stringify2Props(Tail(o), d)

\* ------------------------------------------------- the payloads
Prop(k, v) == <<k, v>>

Paragraph(t) == JObj(<<Prop("type", JStr("paragraph")), Prop("text", JStr(t))>>)
Heading(l, t) ==
  JObj(<<Prop("type", JStr("heading")), Prop("level", JNum(l)), Prop("text", JStr(t))>>)
HeadingNoLevel(t) == JObj(<<Prop("type", JStr("heading")), Prop("text", JStr(t))>>)
Code(l, t) ==
  JObj(<<Prop("type", JStr("code")), Prop("language", JStr(l)), Prop("text", JStr(t))>>)
CodeNoLanguage(t) == JObj(<<Prop("type", JStr("code")), Prop("text", JStr(t))>>)
Item(t) == JObj(<<Prop("text", JStr(t))>>)
List(items) == JObj(<<Prop("type", JStr("list")), Prop("items", JArr(items))>>)
ListNoItems == JObj(<<Prop("type", JStr("list"))>>)
OtherBlock(ty) == JObj(<<Prop("type", JStr(ty)), Prop("text", JStr("z"))>>)

\* Blocks of the kinds the converter knows, and of a kind it does not.
Blocks ==
  {Paragraph("A"), Heading(2, "B"), HeadingNoLevel("H"), Code("js", "x"),
   CodeNoLanguage("y"), List(<<Item("i1"), Item("i2")>>), ListNoItems,
   OtherBlock("image")}

\* Entries of a block list that are no block: not an object, or a heading
\* whose level String.prototype.repeat rejects.
OddBlocks == {JNull, JNum(5), Heading(-1, "N")}

BlockPayload(bs) == JObj(<<Prop("content", JObj(<<Prop("blocks", JArr(bs))>>))>>)
BlockPayloads == {BlockPayload(bs) : bs \in SeqsUpTo(Blocks \cup OddBlocks, MaxBlocks)}

Rows == {JArr(<<JStr("h1"), JStr("h2")>>), JArr(<<JStr("x"), JNum(1)>>)}

Sheet(name, rows) == JObj(<<Prop("sheetName", JStr(name)), Prop("values", JArr(rows))>>)
SheetNoName(rows) == JObj(<<Prop("values", JArr(rows))>>)

Sheets ==
  {Sheet("S", rows) : rows \in SeqsUpTo(Rows, MaxRows)}
  \cup {SheetNoName(rows) : rows \in SeqsUpTo(Rows, MaxRows)}

\* Entries of sheet data that are no sheet: null, a sheet without `values`,
\* a sheet with a row that is no list.
OddSheets ==
  {JNull, JObj(<<Prop("sheetName", JStr("S"))>>), Sheet("S", <<JNull>>)}

ValueRangePayloads ==
  {JObj(<<Prop("valueRange", s)>>) : s \in (Sheets \cup OddSheets) \ {JNull}}

ListSheets ==
  {Sheet("S", <<JArr(<<JStr("h1"), JStr("h2")>>), JArr(<<JStr("x"), JNum(1)>>)>>),
   SheetNoName(<<JArr(<<JStr("h1"), JStr("h2")>>)>>),
   Sheet("E", <<>>),
   JNull}

SheetsPayload(ss) == JObj(<<Prop("sheets", JArr(ss))>>)
SheetsPayloads == {SheetsPayload(ss) : ss \in SeqsUpTo(ListSheets, MaxSheets)}

\* Values with neither a block list nor sheet data, and values whose
\* `content`, `blocks`, `valueRange` or `sheets` is of another type.
PlainValues ==
  {JObj(<<>>),
   JObj(<<Prop("revision", JNum(1))>>),
   JObj(<<Prop("content", JStr("hello")), Prop("revision", JNum(1))>>),
   JObj(<<Prop("content", JObj(<<Prop("title", JStr("t"))>>))>>),
   JObj(<<Prop("content", JStr(""))>>),
   JObj(<<Prop("title", JStr("T")), Prop("tags", JArr(<<JNum(1), JStr("a")>>))>>),
   JObj(<<Prop("content", JObj(<<Prop("blocks", JNum(5))>>))>>),
   JObj(<<Prop("content", JObj(<<Prop("blocks", JStr("ab"))>>))>>),
   JObj(<<Prop("valueRange", JNull)>>),
   JObj(<<Prop("sheets", JNum(5))>>),
   JNum(5), JBool(TRUE), JStr("abc"), JNull,
   JArr(<<>>), JArr(<<JNum(1), JStr("a")>>)}

JsonValues == BlockPayloads \cup ValueRangePayloads \cup SheetsPayloads \cup PlainValues

\* JSON texts and the values they denote: the compact and the indented
\* rendering of every value above.
ParsePairs ==
  {<<Stringify(v), v>> : v \in JsonValues}
  \cup {<<Stringify2(v, 0), v>> : v \in JsonValues}

\* Texts that are no JSON.
RawTexts == {"", "plain text", "# Title\n\nbody", "{content"}

\* JSON.parse(s) succeeds / what it returns.
Parses(s) == \E p \in ParsePairs : p[1] = s
JsonParse(s) == (CHOOSE p \in ParsePairs : p[1] = s)[2]

\* What processDocContent may be handed: a parsed payload, a JSON text, some
\* other text, or nothing.
NormInputs ==
  (JsonValues \ {JStr("abc")})
  \cup {JStr(p[1]) : p \in ParsePairs}
  \cup {JStr(t) : t \in RawTexts}
  \cup {JUndefined}

\* ------------------------------------------------- the converter
\* part_000:105   `处理内容出错: ${message}\n\n原始内容:\n${JSON.stringify(content)}`
\* part_000:63: the code fence, three backquotes (a character that a string
\* of this language cannot hold).
Fence == "~~~"

ErrorPrefix == "processing error: "
OriginalPrefix == "\n\noriginal content:\n"

\* A converter that knows paragraphs and headings only, and no default level
\* of a heading.
BlockMdNoDefaultLevel(block) ==
  IF Nullish(block) THEN Throw(TypeErrorRead(block, "type"))
  ELSE LET type == Get(block, "type")
           text == ToStr(Get(block, "text"))
       IN IF type = JStr("paragraph") THEN Ok(text \o "\n\n")
          ELSE IF type = JStr("heading")
          THEN LET level == Get(block, "level")
               IN IF level.t = "number" /\ level.n < 0
                  THEN Throw("Invalid count value: " \o ToString(level.n))
                  ELSE Ok(Repeat("#", IF level.t = "number" THEN level.n ELSE 0)
                          \o " " \o text \o "\n\n")
          ELSE Ok("")

RECURSIVE ItemsMd(_, _)
\* part_000:66-69: the loop over the items of a list block.
ItemsMd(items, acc) ==
  IF items = <<>> THEN Ok(acc)
  ELSE IF Nullish(items[1]) THEN Throw(TypeErrorRead(items[1], "text"))
  ELSE ItemsMd(Tail(items),
               acc \o "- " \o ToStr(Get(items[1], "text")) \o "\n")

\* part_000:53-72: what one entry of the block list adds to the text.
BlockMd(block) ==
  IF Nullish(block) THEN Throw(TypeErrorRead(block, "type"))
  ELSE LET type == Get(block, "type")
           text == ToStr(Get(block, "text"))
       IN IF type = JStr("paragraph") THEN Ok(text \o "\n\n")
          ELSE IF type = JStr("heading")
          THEN LET l == Get(block, "level")
                   level == IF Truthy(l) THEN l ELSE JNum(1)
               IN IF level.t = "number" /\ level.n < 0
                  THEN Throw("Invalid count value: " \o ToString(level.n))
                  ELSE Ok(Repeat("#", IF level.t = "number" THEN level.n ELSE 0)
                          \o " " \o text \o "\n\n")
          ELSE IF type = JStr("code")
          THEN LET language == Get(block, "language")
               IN Ok(Fence \o (IF Truthy(language) THEN ToStr(language) ELSE "")
                     \o "\n" \o text \o "\n" \o Fence \o "\n\n")
          ELSE IF type = JStr("list")
          THEN LET i == Get(block, "items")
                   items == IF Truthy(i) THEN i ELSE JArr(<<>>)
               IN IF items.t = "array"
                  THEN LET r == ItemsMd(items.a, "")
                       IN IF r.ok THEN Ok(r.s \o "\n") ELSE r
                  ELSE IF items.t = "string"
                  THEN Ok(Repeat("- undefined\n", Len(items.s)) \o "\n")
                  ELSE Throw("(block.items || []) is not iterable")
          ELSE Ok("")

RECURSIVE BlocksMd(_, _)
\* part_000:53-73: the loop over the block list.
BlocksMd(blocks, acc) ==
  IF blocks = <<>> THEN Ok(acc)
  ELSE LET r == BlockMd(blocks[1])
       IN IF r.ok THEN BlocksMd(Tail(blocks), acc \o r.s) ELSE r

RECURSIVE RowsMd(_, _)
\* part_000:88-90: the rows after the first.
RowsMd(rows, acc) ==
  IF rows = <<>> THEN Ok(acc)
  ELSE IF Nullish(rows[1]) THEN Throw(TypeErrorRead(rows[1], "join"))
  ELSE IF rows[1].t # "array" THEN Throw("values[i].join is not a function")
  ELSE RowsMd(Tail(rows), acc \o "| " \o JoinWith(rows[1].a, " | ") \o " |\n")

\* part_000:81-93: what one entry of the sheet data adds to the text.  The
\* heading is written inside the test for a non-empty `values`.
SheetMd(sheet) ==
  IF Nullish(sheet) THEN Throw(TypeErrorRead(sheet, "values"))
  ELSE LET values == Get(sheet, "values")
           length == IF Nullish(values) THEN JUndefined ELSE Get(values, "length")
           name == Get(sheet, "sheetName")
       IN IF Truthy(values) /\ length.t = "number" /\ length.n > 0
          THEN LET heading == "## " \o (IF Truthy(name) THEN ToStr(name) ELSE "Sheet")
                                \o "\n\n"
               IN IF values.t # "array"
                  THEN Throw("values[0].join is not a function")
                  ELSE IF Nullish(values.a[1])
                  THEN Throw(TypeErrorRead(values.a[1], "join"))
                  ELSE IF values.a[1].t # "array"
                  THEN Throw("values[0].join is not a function")
                  ELSE LET first == values.a[1].a
                           dashes == [i \in 1..Len(first) |-> JStr("---")]
                           r == RowsMd(Tail(values.a),
                                       heading
                                       \o "| " \o JoinWith(first, " | ") \o " |\n"
                                       \o "| " \o JoinWith(dashes, " | ") \o " |\n")
                       IN IF r.ok THEN Ok(r.s \o "\n") ELSE r
          ELSE Ok("")

RECURSIVE SheetsMd(_, _)
\* part_000:80-95: the loop over the sheet data.
SheetsMd(data, acc) ==
  IF data = <<>> THEN Ok(acc)
  ELSE LET r == SheetMd(data[1])
       IN IF r.ok THEN SheetsMd(Tail(data), acc \o r.s) ELSE r

\* part_000:49-101: the body of the try, for the content after parsing.
TryBody(content) ==
  IF Nullish(content) THEN Throw(TypeErrorRead(content, "content"))
  ELSE LET c == Get(content, "content")
           valueRange == Get(content, "valueRange")
           sheets == Get(content, "sheets")
       IN IF Truthy(c)
          THEN LET b == Get(c, "blocks")
                   blocks == IF Truthy(b) THEN b ELSE JArr(<<>>)
               IN IF blocks.t = "array" THEN BlocksMd(blocks.a, "")
                  ELSE IF blocks.t = "string" THEN Ok("")
                  ELSE Throw("blocks is not iterable")
          ELSE IF Truthy(valueRange) \/ Truthy(sheets)
          THEN LET data == IF Truthy(valueRange) THEN JArr(<<valueRange>>) ELSE sheets
               IN IF data.t = "array" THEN SheetsMd(data.a, "")
                  ELSE IF data.t = "string" THEN Ok("")
                  ELSE Throw("data is not iterable")
          ELSE Ok(Stringify2(content, 0))

Returned(s) == [kind |-> "string", s |-> s]

\* A converter without the outer catch: the error leaves processDocContent.
CatchRethrow(content, msg) == [kind |-> "raised", msg |-> msg]

\* part_000:102-106: the outer catch.  JSON.stringify(undefined) is
\* undefined, which the template literal writes as undefined.
Catch(content, msg) ==
  Returned(ErrorPrefix \o msg \o OriginalPrefix
           \o (IF content.t = "undefined" THEN "undefined" ELSE Stringify(content)))

\* part_000:37-107 processDocContent: `parsed` is the variable content after
\* lines 41-47, `threw` whether the catch of 102 was entered.
ProcessDocContent(content) ==
  IF content.t = "string" /\ ~Parses(content.s)
  THEN [parsed |-> content, threw |-> FALSE, msg |-> "", out |-> Returned(content.s)]
  ELSE LET parsed == IF content.t = "string" THEN JsonParse(content.s) ELSE content
           r == TryBody(parsed)
       IN IF r.ok
          THEN [parsed |-> parsed, threw |-> FALSE, msg |-> "", out |-> Returned(r.s)]
          ELSE [parsed |-> parsed, threw |-> TRUE, msg |-> r.msg,
                out |-> Catch(parsed, r.msg)]

InitNormalize ==
  /\ impl = "api"
  /\ accessToken = NoToken
  /\ tokenExpireTime = 0
  /\ now = 0
  /\ task = [p \in Tasks |-> IdleFrame]
  /\ lastGrant = None
  /\ ds = None
  /\ wd = None
  /\ norm \in {[pc |-> "start", input |-> c] : c \in NormInputs}
  /\ db = None
  /\ srv = None
  /\ fs = None
  /\ tool = None
  /\ san = None

\* part_000:116   const markdownContent = this.processDocContent(content)
NormCall ==
  /\ norm.pc = "start"
  /\ LET r == ProcessDocContent(norm.input)
     IN norm' = [pc |-> "done", input |-> norm.input, parsed |-> r.parsed,
                 threw |-> r.threw, msg |-> r.msg, out |-> r.out]
  /\ UNCHANGED <<impl, accessToken, tokenExpireTime, now, task, lastGrant, ds,
                 wd, db, san, srv, fs, tool>>

NextNormalize == NormCall

SpecNormalize == InitNormalize /\ [][NextNormalize]_vars

\* ==================================================================
\* Part 5: InMemoryDatabase (SpecStore)
\* ==================================================================
MaxDocs == 2                            \* documents saved in one behaviour
FirstDocId == 1                         \* part_002:22   private nextDocId = 1
ForeignIds == {7}                       \* ids a caller's record may carry

\* "ts": src/unnamed/part_002; "build": src/build/database/index.js
StoreVariants == {"ts", "build"}

\* The records saveDocument may be handed, with and without an id of their own.
\* A name is the sequence of its characters.
DocNames == {<<"A", "B", "C", "d", "e", "f">>, <<"x", "a", "b">>}
DocInputs ==
  [token : {"tA"}, name : DocNames]
  \cup [id : ForeignIds, token : {"tA"}, name : DocNames]

\* The strings searchDocumentsByName may be handed.
Queries == {<<>>, <<"a", "b", "c">>, <<"A", "B">>, <<"B", "c", "D">>,
            <<"a", "b", "x">>, <<"f", "g">>}

\* The (content, path) pairs of updateDocumentContent.
Updates == {[content |-> "c1", path |-> "p1"], [content |-> "c2", path |-> "p2"]}

\* The ids updateDocumentContent may be handed: known, unknown and foreign.
UpdateIds == 0..(MaxDocs + 1) \cup ForeignIds

\* part_002:41-43   const { id: _, ...docWithoutId } = doc;
\*                  const newDoc = { id, ...docWithoutId };
NewDocTs(id, doc) ==
  [id |-> id, token |-> doc.token, name |-> doc.name,
   content |-> Undefined, path |-> Undefined]

\* build/database/index.js:21   const newDoc = { id, ...doc };   the spread
\* comes after id, so a property id of doc replaces it.
NewDocBuild(id, doc) ==
  [id |-> IF "id" \in DOMAIN doc THEN doc.id ELSE id,
   token |-> doc.token, name |-> doc.name,
   content |-> Undefined, path |-> Undefined]

NewDoc(variant, id, doc) ==
  IF variant = "ts" THEN NewDocTs(id, doc) ELSE NewDocBuild(id, doc)

\* Map.prototype.set(id, d)
MapSet(documents, id, d) ==
  [k \in DOMAIN documents \cup {id} |-> IF k = id THEN d ELSE documents[k]]

\* An update that creates the record when the id is unknown.
UpdatedDocumentsUpsert(documents, id, content, path) ==
  IF id \in DOMAIN documents
  THEN MapSet(documents, id,
              [documents[id] EXCEPT !.content = content, !.path = path])
  ELSE MapSet(documents, id,
              [id |-> id, token |-> Undefined, name |-> <<>>,
               content |-> content, path |-> path])

\* part_002:49-56, build/database/index.js:26-33   updateDocumentContent:
\* the map after the call.
UpdatedDocuments(documents, id, content, path) ==
  IF id \in DOMAIN documents
  THEN MapSet(documents, id,
              [documents[id] EXCEPT !.content = content, !.path = path])
  ELSE documents

\* String.prototype.toLowerCase, character by character.
LowerChar(c) ==
  CASE c = "A" -> "a" [] c = "B" -> "b" [] c = "C" -> "c" [] c = "D" -> "d"
    [] c = "F" -> "f" [] c = "M" -> "m" [] c = "O" -> "o"
    [] OTHER -> c
LowerCaseOf(str) == [i \in 1..Len(str) |-> LowerChar(str[i])]

\* String.prototype.includes
Includes(str, sub) ==
  \E i \in 0..(Len(str) - Len(sub)) : SubSeq(str, i + 1, i + Len(sub)) = sub

\* A search that compares the lower-cased names with the query as given.
SearchDocumentsByNameRawQuery(documents, name) ==
  {documents[k] : k \in {i \in DOMAIN documents :
                           Includes(LowerCaseOf(documents[i].name), name)}}

\* part_002:59-64, build/database/index.js:35-38   searchDocumentsByName:
\* the records the returned array holds.
SearchDocumentsByName(documents, name) ==
  LET lowerName == LowerCaseOf(name)
  IN {documents[k] : k \in {i \in DOMAIN documents :
                              Includes(LowerCaseOf(documents[i].name), lowerName)}}

\* part_002:18-22, build/database/index.js:2-6: the store after construction.
DbStart(variant) ==
  [variant |-> variant, spaces |-> {}, documents |-> <<>>, nextDocId |-> FirstDocId,
   last |-> [op |-> "none"]]

InitStore ==
  /\ impl = "api"
  /\ accessToken = NoToken
  /\ tokenExpireTime = 0
  /\ now = 0
  /\ task = [p \in Tasks |-> IdleFrame]
  /\ lastGrant = None
  /\ ds = None
  /\ wd = None
  /\ norm = None
  /\ db \in {DbStart(v) : v \in StoreVariants}
  /\ srv = None
  /\ fs = None
  /\ tool = None
  /\ san = None

StoreFrame == <<impl, accessToken, tokenExpireTime, now, task, lastGrant, ds,
                wd, norm, san, srv, fs, tool>>

\* part_002:39-46, build/database/index.js:19-24   saveDocument(doc)
SaveDocument ==
  /\ db.nextDocId <= MaxDocs
  /\ \E doc \in DocInputs :
       LET id == db.nextDocId
           newDoc == NewDoc(db.variant, id, doc)
       IN db' = [db EXCEPT !.nextDocId = id + 1,
                           !.documents = MapSet(@, id, newDoc),
                           !.last = [op |-> "save", returned |-> newDoc]]
  /\ UNCHANGED StoreFrame

\* part_002:49-56, build/database/index.js:26-33
UpdateDocumentContent ==
  /\ \E id \in UpdateIds, u \in Updates :
       db' = [db EXCEPT !.documents = UpdatedDocuments(@, id, u.content, u.path),
                        !.last = [op |-> "update", id |-> id,
                                  content |-> u.content, path |-> u.path]]
  /\ UNCHANGED StoreFrame

\* part_002:59-64, build/database/index.js:35-38
SearchCall ==
  /\ \E q \in Queries :
       db' = [db EXCEPT !.last = [op |-> "search", query |-> q,
                                  returned |-> SearchDocumentsByName(db.documents, q)]]
  /\ UNCHANGED StoreFrame

NextStore ==
  \/ SaveDocument
  \/ UpdateDocumentContent
  \/ SearchCall

SpecStore == InitStore /\ [][NextStore]_vars

\* ==================================================================
\* Part 6: sanitizeFileName (SpecSanitize)
\* ==================================================================
MaxNameLen == 3                         \* characters in a name

\* A name is the sequence of its characters.
\* part_000:34, server.ts:440   the class [\\/:*?"<>|]
Forbidden == {"\\", "/", ":", "*", "?", "\"", "<", ">", "|"}
\* part_000:34   \s, of which the model has the space, the tab and the newline
Whitespace == {" ", "\t", "\n"}
Alphabet == Forbidden \cup Whitespace \cup {"a", "_"}

\* "converter": DocConverter.sanitizeFileName (src/unnamed/part_000);
\* "server": FeishuMcpServer.sanitizeFileName (src/src/server.ts).
SanitizeVariants == {"converter", "server"}

ExampleName == <<"a", "/", "b", ":", "c", "*", "d">>
Names == SeqsUpTo(Alphabet, MaxNameLen) \cup {ExampleName}

\* .replace(/[\\/:*?"<>|]/g, '_')
ReplaceForbidden(name) ==
  [i \in 1..Len(name) |-> IF name[i] \in Forbidden THEN "_" ELSE name[i]]

RECURSIVE ReplaceWhitespaceRuns(_)
\* .replace(/\s+/g, '_'): every maximal run of whitespace gives one underscore.
ReplaceWhitespaceRuns(name) ==
  IF name = <<>> THEN <<>>
  ELSE IF name[1] \in Whitespace
  THEN IF Len(name) > 1 /\ name[2] \in Whitespace
       THEN ReplaceWhitespaceRuns(Tail(name))
       ELSE <<"_">> \o ReplaceWhitespaceRuns(Tail(name))
  ELSE <<name[1]>> \o ReplaceWhitespaceRuns(Tail(name))

\* part_000:31-35
SanitizeConverter(name) == ReplaceWhitespaceRuns(ReplaceForbidden(name))

\* server.ts:439-441
SanitizeServer(name) == ReplaceForbidden(name)

SanitizeFileName(variant, name) ==
  IF variant = "converter" THEN SanitizeConverter(name) ELSE SanitizeServer(name)

InitSanitize ==
  /\ impl = "api"
  /\ accessToken = NoToken
  /\ tokenExpireTime = 0
  /\ now = 0
  /\ task = [p \in Tasks |-> IdleFrame]
  /\ lastGrant = None
  /\ ds = None
  /\ wd = None
  /\ norm = None
  /\ db = None
  /\ srv = None
  /\ fs = None
  /\ tool = None
  /\ san \in {[pc |-> "start", variant |-> v, name |-> n] :
                v \in SanitizeVariants, n \in Names}

\* part_000:112, part_001:146, server.ts:210   the calls of sanitizeFileName
SanitizeCall ==
  /\ san.pc = "start"
  /\ san' = [pc |-> "done", variant |-> san.variant, name |-> san.name,
             out |-> SanitizeFileName(san.variant, san.name)]
  /\ UNCHANGED <<impl, accessToken, tokenExpireTime, now, task, lastGrant, ds,
                 wd, norm, db, srv, fs, tool>>

NextSanitize == SanitizeCall

SpecSanitize == InitSanitize /\ [][NextSanitize]_vars

\* ==================================================================
\* Part 7: the files under the save root and search-documents (SpecSearch)
\* ==================================================================
MaxSearches == 2                        \* search-documents calls in one behaviour
MaxEdits == 1                           \* changes of the tree between them

\* A path is the sequence of its segments, a segment the sequence of its
\* characters.  server.ts:17   './docs'
DocsPath == <<<<"d", "o", "c", "s">>>>

\* path.join(directory, file) for a name that readdirSync has returned.
JoinName(directory, file) == Append(directory, file)

\* path.relative(from, to) for a path below `from`.
Relative(from, to) == SubSeq(to, Len(from) + 1, Len(to))

FileEntry(path, content) ==
  [path |-> path, kind |-> "file", content |-> content, readable |-> TRUE]
\* A file whose readFileSync throws (EACCES).
LockedEntry(path, content) ==
  [path |-> path, kind |-> "file", content |-> content, readable |-> FALSE]
DirEntry(path) ==
  [path |-> path, kind |-> "dir", content |-> <<>>, readable |-> TRUE]

\* fs.readdirSync(directory): the names in it, in the order the system keeps.
RECURSIVE Readdir(_, _)
Readdir(entries, directory) ==
  IF entries = <<>> THEN <<>>
  ELSE LET e == Head(entries)
       IN (IF Len(e.path) = Len(directory) + 1
              /\ SubSeq(e.path, 1, Len(directory)) = directory
           THEN <<e.path[Len(e.path)]>> ELSE <<>>)
          \o Readdir(Tail(entries), directory)

\* fs.statSync(path), for a path that exists.
Stat(entries, path) ==
  entries[CHOOSE i \in DOMAIN entries : entries[i].path = path]

\* String.prototype.endsWith
EndsWith(str, suffix) ==
  /\ Len(str) >= Len(suffix)
  /\ SubSeq(str, Len(str) - Len(suffix) + 1, Len(str)) = suffix

\* String.prototype.split(c)
RECURSIVE SplitOn(_, _)
SplitOn(str, c) ==
  IF \A i \in DOMAIN str : str[i] # c THEN <<str>>
  ELSE LET i == CHOOSE k \in DOMAIN str :
                  str[k] = c /\ \A j \in 1..(k - 1) : str[j] # c
       IN <<SubSeq(str, 1, i - 1)>> \o SplitOn(SubSeq(str, i + 1, Len(str)), c)

\* String.prototype.trim
RECURSIVE Trim(_)
Trim(str) ==
  IF str = <<>> THEN str
  ELSE IF Head(str) \in Whitespace THEN Trim(Tail(str))
  ELSE IF str[Len(str)] \in Whitespace THEN Trim(SubSeq(str, 1, Len(str) - 1))
  ELSE str

DotMd == <<".", "m", "d">>

\* A line test that compares the line with the keyword as they are.
RECURSIVE MatchLinesExact(_, _, _)
MatchLinesExact(lines, index, keyword) ==
  IF index > Len(lines) THEN <<>>
  ELSE (IF Includes(lines[index], keyword)
        THEN <<[line |-> index, text |-> Trim(lines[index])]>> ELSE <<>>)
       \o MatchLinesExact(lines, index + 1, keyword)

\* server.ts:384-391   lines.forEach((line, index) => ...): the matches of
\* the lines from `index` on (index counts from 1 here, so it is the pushed
\* `index + 1`).
RECURSIVE MatchLines(_, _, _)
MatchLines(lines, index, keyword) ==
  IF index > Len(lines) THEN <<>>
  ELSE (IF Includes(LowerCaseOf(lines[index]), LowerCaseOf(keyword))
        THEN <<[line |-> index, text |-> Trim(lines[index])]>> ELSE <<>>)
       \o MatchLines(lines, index + 1, keyword)

\* server.ts:378-402: what one directory entry adds to `results`.
RECURSIVE SearchInDirectory(_, _, _)
RECURSIVE SearchFiles(_, _, _, _)
SearchFiles(entries, directory, files, keyword) ==
  IF files = <<>> THEN <<>>
  ELSE LET file == Head(files)
           fullPath == JoinName(directory, file)
           stat == Stat(entries, fullPath)
           matches == MatchLines(SplitOn(stat.content, "\n"), 1, keyword)
           found ==
             IF stat.kind = "dir" THEN SearchInDirectory(entries, fullPath, keyword)
             ELSE IF EndsWith(file, DotMd)
             THEN IF stat.readable /\ matches # <<>>
                  THEN <<[file |-> Relative(DocsPath, fullPath), matches |-> matches]>>
                  ELSE <<>>
             ELSE <<>>
       IN found \o SearchFiles(entries, directory, Tail(files), keyword)

\* server.ts:370-404   searchInDirectory(directory)
SearchInDirectory(entries, directory, keyword) ==
  SearchFiles(entries, directory, Readdir(entries, directory), keyword)

\* server.ts:347-432: the answer of the search-documents tool.
SearchDocuments(disk, keyword) ==
  IF ~disk.exists
  THEN [isError |-> FALSE, matches |-> <<>>, message |-> "no documents"]
  ELSE [isError |-> FALSE,
        matches |-> SearchInDirectory(disk.entries, DocsPath, keyword),
        message |-> ""]

\* ------------------------------------------------ the trees and keywords
MatchingText == <<"F", "o", "o", "\n", " ", "b", "a", "r", " ", "f", "o", "o", " ", "\n", "x">>
OtherText == <<"x", "\n", "y">>
EmptyText == <<>>

Keywords == {<<"f", "o", "o">>, <<"F", "O">>, <<>>, <<"z">>, <<" ", "b">>}

RootFile == Append(DocsPath, <<"a", ".", "m", "d">>)
UpperFile == Append(DocsPath, <<"B", ".", "M", "D">>)
MdDir == Append(DocsPath, <<"c", ".", "m", "d">>)
MdDirFile == Append(MdDir, <<"n", ".", "m", "d">>)
SubDir == Append(DocsPath, <<"s", "u", "b">>)
DeepDir == Append(SubDir, <<"d", "e", "e", "p">>)
DeepFile == Append(DeepDir, <<"n", ".", "m", "d">>)

\* The trees: each part is absent or present in one of its forms.
Trees ==
  {[exists |-> FALSE, entries |-> <<>>]}
  \cup
  {[exists |-> TRUE, entries |-> a \o b \o c \o d] :
     a \in {<<>>, <<FileEntry(RootFile, MatchingText)>>, <<FileEntry(RootFile, OtherText)>>},
     b \in {<<>>, <<FileEntry(UpperFile, MatchingText)>>},
     c \in {<<>>, <<DirEntry(MdDir)>>, <<DirEntry(MdDir), FileEntry(MdDirFile, MatchingText)>>},
     d \in {<<>>, <<DirEntry(SubDir), DirEntry(DeepDir)>>,
            <<DirEntry(SubDir), DirEntry(DeepDir), FileEntry(DeepFile, MatchingText)>>,
            <<DirEntry(SubDir), DirEntry(DeepDir), FileEntry(DeepFile, EmptyText)>>,
            <<DirEntry(SubDir), DirEntry(DeepDir), LockedEntry(DeepFile, MatchingText)>>}}

InitSearch ==
  /\ impl = "api"
  /\ accessToken = NoToken
  /\ tokenExpireTime = 0
  /\ now = 0
  /\ task = [t \in Tasks |-> IdleFrame]
  /\ lastGrant = None
  /\ ds = None
  /\ wd = None
  /\ norm = None
  /\ db = DbStart("ts")
  /\ san = None
  /\ srv = None
  /\ fs \in Trees
  /\ tool \in {[keyword |-> k, runs |-> <<>>, edits |-> 0] : k \in Keywords}

\* A search that leaves its keyword behind in a file of the save root.
SearchDocumentsCallCaching ==
  /\ Len(tool.runs) < MaxSearches
  /\ tool' = [tool EXCEPT !.runs = Append(@, [disk |-> fs,
                                             answer |-> SearchDocuments(fs, tool.keyword)])]
  /\ fs' = [exists |-> TRUE,
            entries |-> SelectSeq(fs.entries, LAMBDA e : e.path # Append(DocsPath, <<"l", "a", "s", "t", ".", "m", "d">>))
                        \o <<FileEntry(Append(DocsPath, <<"l", "a", "s", "t", ".", "m", "d">>), tool.keyword)>>]
  /\ UNCHANGED <<impl, accessToken, tokenExpireTime, now, task, lastGrant, ds, wd, norm,
                 db, san, srv>>

\* server.ts:347-432: one call of the search-documents tool; the run keeps
\* the tree it saw and the answer it gave.
SearchDocumentsCall ==
  /\ Len(tool.runs) < MaxSearches
  /\ tool' = [tool EXCEPT !.runs = Append(@, [disk |-> fs,
                                             answer |-> SearchDocuments(fs, tool.keyword)])]
  /\ fs' = fs
  /\ UNCHANGED <<impl, accessToken, tokenExpireTime, now, task, lastGrant, ds, wd, norm,
                 db, san, srv>>

\* Between two searches a download overwrites a file (server.ts:221).
DiskChanges ==
  /\ tool.edits < MaxEdits
  /\ \E i \in DOMAIN fs.entries, text \in {MatchingText, OtherText} :
       /\ fs.entries[i].kind = "file" /\ fs.entries[i].readable
       /\ fs.entries[i].content # text
       /\ fs' = [fs EXCEPT !.entries[i].content = text]
  /\ tool' = [tool EXCEPT !.edits = @ + 1]
  /\ UNCHANGED <<impl, accessToken, tokenExpireTime, now, task, lastGrant, ds, wd, norm,
                 db, san, srv>>

NextSearch ==
  \/ SearchDocumentsCall
  \/ DiskChanges

SpecSearch == InitSearch /\ [][NextSearch]_vars

\* ==================================================================
\* Part 8: the download tools, the files they write and a restart
\* (SpecTools): server.ts, http-server.ts and the catalog-backed tools of
\* src/unnamed/part_001 with DocConverter (src/unnamed/part_000).
\* ==================================================================
MaxCalls == 1                           \* tool invocations in one behaviour
MaxRestarts == 1                        \* restarts of the process

\* path.join(base, str) on POSIX, base being normalized already: the segments
\* of str follow those of base, an empty segment and "." are dropped and ".."
\* takes the segment before it away (or stays, when there is none).
RECURSIVE Normalize(_, _)
Normalize(done, rest) ==
  IF rest = <<>> THEN done
  ELSE LET s == Head(rest)
       IN IF s = <<>> \/ s = <<".">> THEN Normalize(done, Tail(rest))
          ELSE IF s = <<".", ".">> /\ done # <<>> /\ done[Len(done)] # <<".", ".">>
          THEN Normalize(SubSeq(done, 1, Len(done) - 1), Tail(rest))
          ELSE Normalize(Append(done, s), Tail(rest))

PathJoin(base, str) == Normalize(base, SplitOn(str, "/"))

Below(root, path) ==
  Len(path) > Len(root) /\ SubSeq(path, 1, Len(root)) = root

HasEntry(disk, path) == \E i \in DOMAIN disk.entries : disk.entries[i].path = path

\* fs.ensureDirSync(path) / fs.ensureDir(path): every missing directory on the
\* way is made; a file in the way makes it throw.
EnsureDirThrows(disk, path) ==
  \E k \in 1..Len(path) :
    /\ HasEntry(disk, SubSeq(path, 1, k))
    /\ Stat(disk.entries, SubSeq(path, 1, k)).kind = "file"

RECURSIVE EnsureDirFrom(_, _, _)
EnsureDirFrom(disk, path, k) ==
  IF k > Len(path) THEN disk
  ELSE LET prefix == SubSeq(path, 1, k)
       IN EnsureDirFrom(IF prefix = DocsPath THEN [disk EXCEPT !.exists = TRUE]
                        ELSE IF HasEntry(disk, prefix) THEN disk
                        ELSE [disk EXCEPT !.entries = Append(@, DirEntry(prefix))],
                        path, k + 1)

EnsureDir(disk, path) == EnsureDirFrom(disk, path, 1)

\* fs.writeFileSync(path, content) / fs.writeFile: a directory at the path
\* makes it throw (EISDIR); an existing file is replaced, otherwise the file
\* is made.
WriteThrows(disk, path) ==
  HasEntry(disk, path) /\ Stat(disk.entries, path).kind = "dir"

\* A write that leaves an existing file as it is.
WriteFileKeepingFirst(disk, path, content, note) ==
  LET at == {i \in DOMAIN disk.entries : disk.entries[i].path = path}
  IN [disk EXCEPT
        !.entries = IF at = {} THEN Append(@, FileEntry(path, content)) ELSE @,
        !.written = @ \cup {[path |-> path] @@ note}]

\* `written` keeps, for every write that was made, its path and what the
\* path was built from.
WriteFile(disk, path, content, note) ==
  LET at == {i \in DOMAIN disk.entries : disk.entries[i].path = path}
  IN [disk EXCEPT
        !.entries = IF at = {} THEN Append(@, FileEntry(path, content))
                    ELSE [i \in DOMAIN @ |->
                            IF i \in at THEN FileEntry(path, content) ELSE @[i]],
        !.written = @ \cup {[path |-> path] @@ note}]

Note(op, space, title) == [op |-> op, space |-> space, title |-> title]

\* ----------------------------------------------------- what is downloaded
UntitledName == <<"u", "n", "t", "i", "t", "l", "e", "d">>              \* '未命名文档'
DocumentId == <<"d", "1">>                      \* the documentId / fileToken argument
SpaceId == <<"7">>                          \* the spaceId argument

\* The spaceName argument of server.ts download-document; <<>> is the
\* argument left out.
SpaceNames == {<<>>, <<".", ".">>, <<"x", "/", "y">>}
Titles == {<<>>, <<"a", "/", "b">>, <<"a", ":", "b">>}

Failure == [kind |-> "error", name |-> "Rejected"]

\* The data of the answers: null, or an object.
MetaOutcomes == {Failure, Value(None)} \cup {Value([title |-> t]) : t \in Titles}
ContentOutcomes ==
  {Failure, Value(None), Value([content |-> MatchingText]), Value([content |-> OtherText])}
SpacesOutcomes ==
  {Failure, Value(<<>>)}
  \cup {Value(<<[space_id |-> SpaceId, name |-> n]>>) : n \in SpaceNames}
DocxNode(title) == [obj_type |-> "docx", title |-> title]
NodesOutcomes ==
  {Failure, Value(<<>>),
   Value(<<DocxNode(<<"a", "/", "b">>), DocxNode(<<"a", ":", "b">>)>>),
   Value(<<[obj_type |-> "sheet", title |-> <<"a", "/", "b">>], DocxNode(<<>>)>>)}

IdleCall ==
  [op |-> "none", pc |-> "idle", space |-> <<>>, meta |-> None, nodes |-> <<>>,
   idx |-> 0, ok |-> 0, fail |-> 0, log |-> <<>>, result |-> None]

Done(f, result) == [f EXCEPT !.pc = "done", !.result = result]

\* What a step of a handler leaves behind: its frame and the disk.
Step(f, disk) == [call |-> f, disk |-> disk]

\* ------------------------------------------ server.ts download-document
\* server.ts:188-191: up to the getDocumentMeta request.
ServerDocumentEnter(spaceName) ==
  [IdleCall EXCEPT !.op = "server.download-document", !.pc = "meta",
                   !.space = spaceName]

\* server.ts:191-247: the handler after the await it is waiting at.
ServerDocumentResume(f, disk, r) ==
  IF IsError(r) \/ r.v = None THEN Step(Done(f, "isError"), disk)
  ELSE IF f.pc = "meta" THEN Step([f EXCEPT !.pc = "content", !.meta = r.v], disk)
  ELSE LET dirPath == IF f.space # <<>>
                      THEN PathJoin(DocsPath, SanitizeServer(f.space))
                      ELSE DocsPath
           docTitle == IF f.meta.title # <<>> THEN f.meta.title
                       ELSE UntitledName \o <<"_">> \o DocumentId
           fileName == SanitizeServer(docTitle) \o DotMd
           filePath == PathJoin(dirPath, fileName)
           ensured == EnsureDir(disk, dirPath)
       IN IF EnsureDirThrows(disk, dirPath) \/ WriteThrows(ensured, filePath)
          THEN Step(Done(f, "isError"), disk)
          ELSE Step(Done(f, "success"),
                    WriteFile(ensured, filePath, r.v.content,
                              Note(f.op, f.space, docTitle)))

\* ------------------------------------ server.ts download-space-documents
\* server.ts:257-262: up to the getSpaces request.
ServerSpaceEnter ==
  [IdleCall EXCEPT !.op = "server.download-space-documents", !.pc = "spaces"]

ServerSpaceFolder(f) == PathJoin(DocsPath, SanitizeServer(f.space))

\* server.ts:284-308: the loop from node i on, up to its next await.
RECURSIVE ServerSpaceLoop(_, _, _)
ServerSpaceLoop(f, disk, i) ==
  IF i > Len(f.nodes) THEN Step(Done(f, "success"), disk)
  ELSE IF f.nodes[i].obj_type # "docx" THEN ServerSpaceLoop(f, disk, i + 1)
  ELSE Step([f EXCEPT !.pc = "nodeContent", !.idx = i], disk)

\* server.ts:259-337: the handler after the await it is waiting at.
ServerSpaceResume(f, disk, r) ==
  IF f.pc = "spaces"
  THEN IF IsError(r) THEN Step(Done(f, "isError"), disk)
       ELSE IF r.v = <<>> THEN Step(Done(f, "isError"), disk)
       ELSE Step([f EXCEPT !.pc = "nodes", !.space = r.v[1].name], disk)
  ELSE IF f.pc = "nodes"
  THEN IF IsError(r) \/ EnsureDirThrows(disk, ServerSpaceFolder(f))
       THEN Step(Done(f, "isError"), disk)
       ELSE ServerSpaceLoop([f EXCEPT !.nodes = r.v],
                            EnsureDir(disk, ServerSpaceFolder(f)), 1)
  ELSE LET node == f.nodes[f.idx]
           title == IF node.title # <<>> THEN node.title ELSE UntitledName
           filePath == PathJoin(ServerSpaceFolder(f), SanitizeServer(title) \o DotMd)
       IN IF IsError(r) \/ r.v = None \/ WriteThrows(disk, filePath)
          THEN ServerSpaceLoop([f EXCEPT !.fail = @ + 1,
                                         !.log = Append(@, [path |-> filePath,
                                                            ok |-> FALSE,
                                                            fetched |-> ~(IsError(r) \/ r.v = None),
                                                            content |-> <<>>])],
                               disk, f.idx + 1)
          ELSE ServerSpaceLoop([f EXCEPT !.ok = @ + 1,
                                         !.log = Append(@, [path |-> filePath,
                                                            ok |-> TRUE,
                                                            fetched |-> TRUE,
                                                            content |-> r.v.content])],
                               WriteFile(disk, filePath, r.v.content,
                                         Note(f.op, f.space, title)),
                               f.idx + 1)

\* ---------------------------------- http-server.ts downloadSpaceDocuments
\* http-server.ts:173-176: up to the listDocuments request.
HttpSpaceEnter ==
  [IdleCall EXCEPT !.op = "http.downloadSpaceDocuments", !.pc = "list",
                   !.space = SpaceId]

\* http-server.ts:180-181   `space_${spaceId}`
HttpSpaceFolder(f) == PathJoin(DocsPath, <<"s", "p", "a", "c", "e", "_">> \o f.space)

ListOutcomes ==
  {Failure, Value(<<>>), Value(<<[node_token |-> "n1"]>>),
   Value(<<[node_token |-> "n1"], [node_token |-> "n2"]>>)}

\* http-server.ts:185-196: the loop from document i on: downloadDocument is
\* called and waits for the metadata (127-135).
HttpSpaceLoop(f, disk, i) ==
  IF i > Len(f.nodes) THEN Step(Done(f, "success"), disk)
  ELSE Step([f EXCEPT !.pc = "meta", !.idx = i], disk)

\* http-server.ts:127-200: downloadSpaceDocuments with downloadDocument,
\* after the await it is waiting at.
HttpSpaceResume(f, disk, r) ==
  IF f.pc = "list"
  THEN IF IsError(r) \/ EnsureDirThrows(disk, HttpSpaceFolder(f))
       THEN Step(Done(f, "raised"), disk)
       ELSE HttpSpaceLoop([f EXCEPT !.nodes = r.v],
                          EnsureDir(disk, HttpSpaceFolder(f)), 1)
  ELSE IF IsError(r) \/ r.v = None
  THEN HttpSpaceLoop([f EXCEPT !.fail = @ + 1], disk, f.idx + 1)
  ELSE IF f.pc = "meta" THEN Step([f EXCEPT !.pc = "content", !.meta = r.v], disk)
  ELSE LET title == IF f.meta.title # <<>> THEN f.meta.title ELSE UntitledName
           fileName == ReplaceForbidden(title) \o DotMd
           rootPath == PathJoin(DocsPath, fileName)
           spacePath == PathJoin(HttpSpaceFolder(f), fileName)
           note == Note(f.op, f.space, title)
       IN IF WriteThrows(disk, rootPath)
          THEN HttpSpaceLoop([f EXCEPT !.fail = @ + 1], disk, f.idx + 1)
          ELSE LET first == WriteFile(disk, rootPath, r.v.content, note)
               IN IF WriteThrows(first, spacePath)
                  THEN HttpSpaceLoop([f EXCEPT !.fail = @ + 1], first, f.idx + 1)
                  ELSE HttpSpaceLoop([f EXCEPT !.ok = @ + 1],
                                     WriteFile(first, spacePath, r.v.content, note),
                                     f.idx + 1)

\* ------------------------------------------ DocConverter.saveAsMarkdown
\* The payloads handed to saveAsMarkdown here: a string that is no JSON text,
\* which processDocContent returns as it is (part_000:39-47), and a document
\* of paragraph blocks, of which each gives its text and an empty line (50-56).
Payloads ==
  {[kind |-> "string", text |-> MatchingText],
   [kind |-> "doc", paragraphs |-> <<OtherText>>]}

RECURSIVE ParagraphsMd(_)
ParagraphsMd(paragraphs) ==
  IF paragraphs = <<>> THEN <<>>
  ELSE Head(paragraphs) \o <<"\n", "\n">> \o ParagraphsMd(Tail(paragraphs))

MarkdownOf(payload) ==
  IF payload.kind = "string" THEN payload.text ELSE ParagraphsMd(payload.paragraphs)

\* The subFolder arguments: what sanitizeFileName makes of a space name
\* (part_001:146, 222), or '' for none.
SubFolders == {SanitizeConverter(n) : n \in SpaceNames}

\* part_000:109-124   saveAsMarkdown(fileName, content, subFolder)
SaveAsMarkdownPath(fileName, subFolder) ==
  PathJoin(PathJoin(DocsPath, subFolder), SanitizeConverter(fileName) \o DotMd)

SaveAsMarkdownThrows(disk, fileName, subFolder) ==
  \/ EnsureDirThrows(disk, PathJoin(DocsPath, subFolder))
  \/ WriteThrows(EnsureDir(disk, PathJoin(DocsPath, subFolder)),
                 SaveAsMarkdownPath(fileName, subFolder))

SaveAsMarkdown(disk, fileName, payload, subFolder) ==
  WriteFile(EnsureDir(disk, PathJoin(DocsPath, subFolder)),
            SaveAsMarkdownPath(fileName, subFolder), MarkdownOf(payload),
            Note("converter.saveAsMarkdown", subFolder, fileName))

\* ----------------------------------- the catalog as part_001 reaches it
\* part_002:89-98 (build/database/index.js:54):
\*   export const { saveSpace, ..., getDocumentByToken } = db;
\* takes the functions off the instance, and part_001:4 imports the module as
\* a namespace (import * as db), so db.saveDocument(...) runs saveDocument
\* with `this` bound to the module namespace object.  That object has the
\* exported names only and cannot be extended.
NamespaceExports ==
  {"saveSpace", "getAllSpaces", "saveDocument", "updateDocumentContent",
   "searchDocumentsByName", "getDocumentsBySpace", "getAllDocuments",
   "getDocumentByToken"}

\* The field of `this` a function uses first: this.spaces.set (part_002:29),
\* this.nextDocId++ (40), this.documents.get / .values() (50, 60, 82).
FirstFieldUsed(fn) ==
  CASE fn = "saveSpace" -> "spaces"
    [] fn = "saveDocument" -> "nextDocId"
    [] OTHER -> "documents"

\* The call throws a TypeError: the field is undefined on the namespace (a
\* method call on undefined) or cannot be assigned (nextDocId++).
ExportedCallThrows(fn) == FirstFieldUsed(fn) \notin NamespaceExports

StepDb(f, disk, catalog) == [call |-> f, disk |-> disk, db |-> catalog]

DocumentNames == {<<"a", "/", "b">>, <<>>}

\* part_001:123-128: up to `await converter.init()`.
CatalogDocumentEnter(name) ==
  [IdleCall EXCEPT !.op = "catalog.download-document", !.pc = "init",
                   !.meta = [token |-> DocumentId,
                             name |-> IF name # <<>> THEN name ELSE UntitledName]]

\* part_001:141-150: the fetch has settled; write the file, then record it.
CatalogStore(f, disk, catalog, r, id) ==
  IF IsError(r) \/ SaveAsMarkdownThrows(disk, f.meta.name, <<>>)
  THEN StepDb(Done(f, "failed"), disk, catalog)
  ELSE StepDb(Done(f, "success"),
              SaveAsMarkdown(disk, f.meta.name,
                             [kind |-> "string", text |-> r.v.content], <<>>),
              [catalog EXCEPT
                 !.documents = UpdatedDocuments(@, id, r.v.content,
                                                SaveAsMarkdownPath(f.meta.name, <<>>))])

\* part_001:128-170: the handler after the await it is waiting at.
CatalogDocumentResume(f, disk, catalog, r) ==
  IF f.pc = "init"
  THEN LET ensured == EnsureDir(disk, DocsPath)
           known == {k \in DOMAIN catalog.documents :
                       catalog.documents[k].token = f.meta.token}
       IN IF ExportedCallThrows("getDocumentByToken")
          THEN StepDb(Done(f, "failed"), ensured, catalog)
          ELSE IF known # {}
          THEN StepDb([f EXCEPT !.pc = "content", !.idx = CHOOSE k \in known : TRUE],
                      ensured, catalog)
          ELSE IF ExportedCallThrows("saveDocument")
          THEN StepDb(Done(f, "failed"), ensured, catalog)
          ELSE StepDb([f EXCEPT !.pc = "content", !.idx = catalog.nextDocId],
                      ensured,
                      [catalog EXCEPT
                         !.nextDocId = @ + 1,
                         !.documents = MapSet(@, catalog.nextDocId,
                                              NewDoc(catalog.variant, catalog.nextDocId,
                                                     f.meta))])
  ELSE IF ~IsError(r) /\ r.v = None
  THEN StepDb(Done(f, "failed"), disk, catalog)
  ELSE CatalogStore(f, disk, catalog, r, f.idx)

\* part_001:172-177: up to `await converter.init()`; the spaceId is given.
CatalogSpaceEnter ==
  [IdleCall EXCEPT !.op = "catalog.download-space-documents", !.pc = "init",
                   !.space = SpaceId]

FilesOutcomes ==
  {Failure, Value(<<>>),
   Value(<<[token |-> DocumentId, name |-> <<"a", "/", "b">>]>>),
   Value(<<[token |-> DocumentId, name |-> <<"a", "/", "b">>],
           [token |-> DocumentId, name |-> <<"a", ":", "b">>]>>)}

\* part_001:209-243: the loop from document i on, up to its next await: a
\* saveDocument that throws is caught inside the loop and the document is
\* entered in the results as failed.
RECURSIVE CatalogSpaceLoop(_, _, _, _)
CatalogSpaceLoop(f, disk, catalog, i) ==
  IF i > Len(f.nodes) THEN StepDb(Done(f, "success"), disk, catalog)
  ELSE IF ExportedCallThrows("saveDocument")
  THEN CatalogSpaceLoop([f EXCEPT !.fail = @ + 1], disk, catalog, i + 1)
  ELSE StepDb([f EXCEPT !.pc = "content", !.idx = i,
                        !.meta = [token |-> f.nodes[i].token, name |-> f.nodes[i].name]],
              disk,
              [catalog EXCEPT
                 !.nextDocId = @ + 1,
                 !.documents = MapSet(@, catalog.nextDocId,
                                      NewDoc(catalog.variant, catalog.nextDocId,
                                             f.nodes[i]))])

\* part_001:177-276: the handler after the await it is waiting at.
CatalogSpaceResume(f, disk, catalog, r) ==
  IF f.pc = "init"
  THEN StepDb([f EXCEPT !.pc = "documents"], EnsureDir(disk, DocsPath), catalog)
  ELSE IF f.pc = "documents"
  THEN IF IsError(r) THEN StepDb(Done(f, "failed"), disk, catalog)
       ELSE StepDb([f EXCEPT !.pc = "spaces", !.nodes = r.v], disk, catalog)
  ELSE IF f.pc = "spaces"
  THEN IF IsError(r) THEN StepDb(Done(f, "failed"), disk, catalog)
       ELSE IF r.v # <<>> /\ ExportedCallThrows("saveSpace")
       THEN StepDb(Done(f, "failed"), disk, catalog)
       ELSE CatalogSpaceLoop(f, disk, catalog, 1)
  ELSE LET stored == CatalogStore(f, disk, catalog, r, catalog.nextDocId - 1)
       IN CatalogSpaceLoop(IF stored.call.result = "success"
                           THEN [f EXCEPT !.ok = @ + 1] ELSE [f EXCEPT !.fail = @ + 1],
                           stored.disk, stored.db, f.idx + 1)

\* ------------------------------------------------------------ the actions
\* What the awaited call of frame f may settle with.
AwaitOutcomes(f) ==
  CASE f.pc = "meta" -> MetaOutcomes
    [] f.pc \in {"content", "nodeContent"} -> ContentOutcomes
    [] f.pc = "spaces" -> SpacesOutcomes
    [] f.pc = "nodes" -> NodesOutcomes
    [] f.pc = "list" -> ListOutcomes
    [] f.pc = "documents" -> FilesOutcomes
    [] OTHER -> {Value(None)}

Resume(f, disk, catalog, r) ==
  CASE f.op = "server.download-document" -> ServerDocumentResume(f, disk, r)
    [] f.op = "server.download-space-documents" -> ServerSpaceResume(f, disk, r)
    [] f.op = "http.downloadSpaceDocuments" -> HttpSpaceResume(f, disk, r)
    [] f.op = "catalog.download-document" -> CatalogDocumentResume(f, disk, catalog, r)
    [] OTHER -> CatalogSpaceResume(f, disk, catalog, r)

Entries ==
  {ServerDocumentEnter(n) : n \in SpaceNames}
  \cup {ServerSpaceEnter, HttpSpaceEnter, CatalogSpaceEnter}
  \cup {CatalogDocumentEnter(n) : n \in DocumentNames}

ToolStart ==
  [keyword |-> <<"F", "O">>, runs |-> <<>>, edits |-> 0, calls |-> 0, restarts |-> 0,
   boot |-> [written |-> {}, docs |-> 0], call |-> IdleCall]

InitTools ==
  /\ impl = "api"
  /\ accessToken = NoToken
  /\ tokenExpireTime = 0
  /\ now = 0
  /\ task = [t \in Tasks |-> IdleFrame]
  /\ lastGrant = None
  /\ ds = None
  /\ wd = None
  /\ norm = None
  /\ db \in {DbStart(v) : v \in StoreVariants}
  /\ san = None
  /\ srv = None
  /\ fs = [exists |-> TRUE, entries |-> <<>>, written |-> {}]
  /\ tool = ToolStart

ToolFrame == <<impl, accessToken, tokenExpireTime, now, task, lastGrant, ds, wd, norm,
               san, srv>>

\* A tool is invoked; its handler runs up to its first await.
ToolCall ==
  /\ tool.call.pc \in {"idle", "done"}
  /\ tool.calls < MaxCalls
  /\ \E f \in Entries : tool' = [tool EXCEPT !.call = f, !.calls = @ + 1]
  /\ UNCHANGED <<fs, db>>
  /\ UNCHANGED ToolFrame

\* The call the handler waits for settles and the handler runs on, up to its
\* next await or its return.
ToolSettles ==
  /\ tool.call.pc \notin {"idle", "done"}
  /\ \E r \in AwaitOutcomes(tool.call) :
       LET st == Resume(tool.call, fs, db, r)
       IN /\ tool' = [tool EXCEPT !.call = st.call]
          /\ fs' = st.disk
          /\ db' = IF "db" \in DOMAIN st THEN st.db ELSE db
  /\ UNCHANGED ToolFrame

\* part_000:109-124: DocConverter.saveAsMarkdown is called by itself.
SaveAsMarkdownCall ==
  /\ tool.call.pc \in {"idle", "done"}
  /\ tool.calls < MaxCalls
  /\ \E fileName \in Titles \ {<<>>}, payload \in Payloads, subFolder \in SubFolders :
       /\ ~SaveAsMarkdownThrows(fs, fileName, subFolder)
       /\ fs' = SaveAsMarkdown(fs, fileName, payload, subFolder)
  /\ tool' = [tool EXCEPT !.calls = @ + 1, !.call = IdleCall]
  /\ UNCHANGED db
  /\ UNCHANGED ToolFrame

\* A restart that clears the save root as well.
RestartWiping ==
  /\ tool.restarts < MaxRestarts
  /\ tool' = [tool EXCEPT !.restarts = @ + 1, !.call = IdleCall,
                          !.runs = <<>>,
                          !.boot = [written |-> fs.written,
                                    docs |-> Cardinality(DOMAIN db.documents)]]
  /\ db' = DbStart(db.variant)
  /\ fs' = [fs EXCEPT !.entries = <<>>]
  /\ UNCHANGED ToolFrame

\* The process ends and is started again: part_002:19-22 and 87 build a new
\* store, server.ts:17-18 makes sure the save root exists; a handler that was
\* running is gone and so are the answers it gave.  `boot` keeps which writes
\* had been made and how many documents the catalog held when the process was
\* started again.
Restart ==
  /\ tool.restarts < MaxRestarts
  /\ tool' = [tool EXCEPT !.restarts = @ + 1, !.call = IdleCall,
                          !.runs = <<>>,
                          !.boot = [written |-> fs.written,
                                    docs |-> Cardinality(DOMAIN db.documents)]]
  /\ db' = DbStart(db.variant)
  /\ fs' = EnsureDir(fs, DocsPath)
  /\ UNCHANGED ToolFrame

NextTools ==
  \/ ToolCall
  \/ ToolSettles
  \/ SaveAsMarkdownCall

SpecTools == InitTools /\ [][NextTools]_vars

\* The tools, the store and the search over a restart.
\* part_002:29-31: saveSpace(id, name) sets the entry of the id.
SpaceRow == [id |-> SpaceId, name |-> <<"x", "/", "y">>]

SaveSpace ==
  /\ SpaceRow \notin db.spaces
  /\ db' = [db EXCEPT !.spaces = {s \in @ : s.id # SpaceRow.id} \cup {SpaceRow},
                      !.last = [op |-> "saveSpace"]]
  /\ UNCHANGED StoreFrame

\* saveDocument with the one document that is saved around a restart.
RestartDoc == [token |-> "tA", name |-> <<"x", "a", "b">>]

SaveDocumentCall ==
  /\ SaveDocument
  /\ db'.last.returned = NewDoc(db.variant, db.nextDocId, RestartDoc)

\* saveAsMarkdown with the one title that is written around a restart, in
\* every sub-folder and with either payload.
RestartTitle == <<"a", "/", "b">>

SaveAsMarkdownTitled ==
  /\ SaveAsMarkdownCall
  /\ \A w \in fs'.written \ fs.written : w.title = RestartTitle

NextRestart ==
  \/ SaveAsMarkdownTitled
  \/ SaveDocumentCall
  \/ SaveSpace
  \/ SearchDocumentsCall
  \/ Restart

\* The store of part_002; with RestartDoc the two stores do the same.
InitRestart == InitTools /\ db.variant = "ts"

SpecRestart == InitRestart /\ [][NextRestart]_vars

\* ==================================================================
\* Properties of the token cache (Spec)
\* ==================================================================
InFlightExchanges == {p \in Tasks : task[p].pc = "exchanging"}

\* C1: token refresh is singleflight: callers that find no valid token while
\* an exchange is pending are coalesced onto it, so at most one
\* credential-exchange request is in flight at any time.
C1_Singleflight == Cardinality(InFlightExchanges) <= 1

\* The cached window, in the claim's words: a token is cached and the clock
\* is before its expiry.
InCachedWindow == accessToken # NoToken /\ now < tokenExpireTime

\* C2: a getAccessToken call made inside the cached window returns the cached
\* token at once and sends no exchange request and leaves the cache alone; a
\* call made outside it (no token, or at or after tokenExpireTime) sends
\* exactly one exchange request; no call ever sends more than one.
C2_CachedWindow ==
  /\ [](\A p \in Tasks : task[p].issued <= 1)
  /\ [][\A p \in Tasks :
          (task[p].pc = "idle" /\ task'[p].pc # "idle") =>
            IF InCachedWindow
            THEN /\ task'[p].pc = "returned"
                 /\ task'[p].result = Value(accessToken)
                 /\ task'[p].issued = 0
                 /\ accessToken' = accessToken
                 /\ tokenExpireTime' = tokenExpireTime
            ELSE /\ task'[p].pc = "exchanging"
                 /\ task'[p].issued = 1]_vars

\* C2 witness: after a grant, a later call (the clock has moved) was served
\* from the cache without an exchange.
C2_Witness ==
  \E p \in Tasks :
    /\ task[p].pc = "returned" /\ task[p].issued = 0
    /\ lastGrant.kind = "grant" /\ now > lastGrant.at
    /\ task[p].result = Value(accessToken)

\* C3: after a successful exchange completed at time t with a reported
\* lifetime of L seconds the cached expiry is t + (L - 300) seconds, in ms.
C3_ExpiryMargin ==
  lastGrant.kind = "grant" =>
    tokenExpireTime = lastGrant.at + (lastGrant.response.expire - 300) * 1000

\* C3 witness: a lifetime of 7200 s granted at a time t > 0 by the feishu.ts
\* client gives the expiry t + 6900 s.
C3_Witness ==
  /\ lastGrant.kind = "grant" /\ impl = "api"
  /\ lastGrant.response.expire = 7200 /\ lastGrant.at > 0
  /\ tokenExpireTime = lastGrant.at + 6900000

ExchangeFailed(resp) == resp.kind = "neterr" \/ resp.code # 0

\* C4: a getAccessToken call whose exchange failed (no response, or a
\* non-zero code) has returned, with an error, after exactly one exchange
\* request: it is not sent again.
C4_NoRetry ==
  \A p \in Tasks :
    /\ task[p].issued <= 1
    /\ (task[p].exchange # None /\ ExchangeFailed(task[p].exchange)) =>
         /\ task[p].pc = "returned"
         /\ IsError(task[p].result)
         /\ task[p].issued = 1

\* C4 witness: a call has returned the error of a non-zero exchange code.
C4_Witness ==
  \E p \in Tasks :
    /\ task[p].pc = "returned" /\ task[p].exchange.kind = "body"
    /\ task[p].exchange.code # 0
    /\ task[p].result = TokenError(task[p].exchange.msg)

\* ==================================================================
\* Properties of the request pipeline (SpecRequest)
\* ==================================================================
\* C5: request issues the API call only after getAccessToken has returned a
\* token (a failed token acquisition propagates and no API call is issued);
\* it returns the envelope's data exactly when the code is 0, and for a
\* non-zero code raises an error carrying that code and the envelope's msg
\* (an empty msg has nothing to carry).
C5_RequestEnvelope ==
  \A p \in Tasks : task[p].op = "request" =>
    LET f == task[p] IN
    /\ f.apiIssued >= 1 => IsValue(f.tokenResult)
    /\ f.tokenResult # None /\ IsError(f.tokenResult) =>
         f.apiIssued = 0 /\ f.pc = "returned" /\ f.result = f.tokenResult
    /\ f.pc = "calling" => f.apiIssued = 1
    /\ (f.pc = "returned" /\ f.response # None) =>
         /\ IsValue(f.result) <=> (f.response.kind = "body" /\ f.response.code = 0)
         /\ IsValue(f.result) => f.result.v = f.response.data
         /\ (f.response.kind \in {"body", "httperr"} /\ f.response.code # 0) =>
              /\ IsError(f.result)
              /\ f.result.code = f.response.code
              /\ f.response.msg # "" => f.result.msg = f.response.msg

\* C5 witness: request has raised the error of an envelope with a non-zero
\* code and a msg.
C5_Witness ==
  \E p \in Tasks :
    /\ task[p].op = "request" /\ task[p].pc = "returned"
    /\ task[p].response.kind = "body" /\ task[p].response.code = 1
    /\ task[p].result = ApiError(1, "boom")

\* The remote API answered with a permission-denied error.
PermissionDenied(resp) ==
  resp.kind \in {"body", "httperr"} /\ resp.code # 0 /\ resp.msg = "Access denied"

EmptyListing == [items |-> <<>>, has_more |-> FALSE]
EmptySearch == [items |-> <<>>]

\* C6: on a permission-denied answer getSpaces and getNodes return
\* {items: [], has_more: false} and searchWiki returns {items: []}; none of
\* them raises.
C6_ListingDegrades ==
  \A p \in Tasks :
    (task[p].pc = "returned" /\ task[p].response # None
       /\ PermissionDenied(task[p].response)) =>
      /\ task[p].op \in {"getSpaces", "getNodes"} => task[p].result = Value(EmptyListing)
      /\ task[p].op = "searchWiki" => task[p].result = Value(EmptySearch)

\* C7: on a permission-denied answer to the raw-content call
\* getDocumentContent returns {content: '', revision: 0} and does not raise.
C7_ContentDegrades ==
  \A p \in Tasks :
    (task[p].op = "getDocumentContent" /\ task[p].pc = "returned"
       /\ task[p].response # None /\ PermissionDenied(task[p].response)) =>
      task[p].result = Value(EmptyContent)

\* ==================================================================
\* Properties of downloadSpaceDocuments (SpecDownload, SpecDownloadFair)
\* ==================================================================
Count(seq, x) == Cardinality({i \in DOMAIN seq : seq[i] = x})

\* The document-bearing nodes among those the listing has delivered.
DocBearing ==
  {i \in DOMAIN ds.delivered : ds.delivered[i].obj_type \in {"doc", "sheet", "bitable"}}

\* C8: once the listing has yielded its nodes the batch does not raise; the
\* counters follow the outcomes of the single downloads; and with n
\* document-bearing nodes of which k downloads failed the call returns
\* {downloaded: n - k, failed: k, total: n}, every node having been attempted.
C8_BatchCounts ==
  /\ ds.pc = "raised" => ds.stage = "listing"
  /\ ds.stage # "listing" =>
       /\ ds.downloaded = Count(ds.dlResults, "ok")
       /\ ds.failed = Count(ds.dlResults, "error")
  /\ ds.pc = "done" =>
       LET n == Cardinality(DocBearing)
           k == Count(ds.dlResults, "error")
       IN /\ Len(ds.dlResults) = n
          /\ ds.result = [downloaded |-> n - k, total |-> n, failed |-> k]
          /\ ds.result.downloaded + ds.result.failed = ds.result.total

\* C8 witness: five nodes, the second download failed, the three after it
\* were still attempted: {downloaded: 4, failed: 1, total: 5}.
C8_Witness ==
  /\ ds.pc = "done"
  /\ ds.result = [downloaded |-> 4, total |-> 5, failed |-> 1]
  /\ ds.dlResults = <<"ok", "error", "ok", "ok", "ok">>

\* C9: the paged listing of downloadSpaceDocuments comes to an end whatever
\* the server answers: eventually the call has left the listing loop (or has
\* raised).
C9_ListingTerminates == <>(ds.stage # "listing" \/ ds.pc = "raised")

\* C10: the loop sends a further listing request only after a page with
\* has_more = true and a non-empty page_token, so a page with has_more = true
\* and an empty or missing token ends the listing; and everything delivered
\* up to then is kept.
C10_EmptyTokenStops ==
  /\ (ds.pc = "listWait" /\ ds.listRequests > 1) => (ds.pageToken # "" /\ ds.hasMore)
  /\ ds.stage # "listing" => ds.allNodes = ds.delivered

\* C10 witness: the second page said has_more = true without a token; the
\* listing stopped there, after two requests, with the nodes of both pages.
C10_Witness ==
  /\ ds.stage = "download" /\ ds.listRequests = 2
  /\ ds.hasMore /\ ds.pageToken = ""
  /\ Len(ds.allNodes) = 3

\* ==================================================================
\* Properties of downloadWikiDocument (SpecWiki)
\* ==================================================================
WikiNode == wd.nodeInfo.v.node

\* C11: downloadWikiDocument sends the node-resolution request first and the
\* content request only after the resolution has succeeded, for the resolved
\* obj_token and obj_type; when the resolution fails the error reaches the
\* caller as it is (nothing is put in its place) and no content request is
\* sent.
C11_ResolveThenFetch ==
  /\ wd.requests \in {<<>>, <<"get_node">>, <<"get_node", "raw_content">>}
  /\ Len(wd.requests) = 2 =>
       /\ IsValue(wd.nodeInfo)
       /\ WikiNode # None
       /\ wd.contentReq = [obj_token |-> WikiNode.obj_token,
                           obj_type |-> WikiNode.obj_type]
  /\ IsError(wd.nodeInfo) =>
       /\ wd.pc = "done"
       /\ wd.result = wd.nodeInfo
       /\ wd.requests = <<"get_node">>

C11_Witness ==
  /\ wd.pc = "contentWait"
  /\ wd.requests = <<"get_node", "raw_content">>
  /\ wd.contentReq = [obj_token |-> "obj2", obj_type |-> "doc"]

\* The object type of the resolved node is anything but 'doc' (in any case).
UnsupportedNode ==
  /\ IsValue(wd.nodeInfo)
  /\ WikiNode # None
  /\ WikiNode.obj_token # ""
  /\ WikiNode.obj_type \notin {"", "doc", "DOC"}

\* C12: for a node of an unsupported object type ('sheet' and 'bitable'
\* included) the content dispatch ends in {content: '', revision: 0}: no
\* content request is sent and the download resolves, with empty content.
C12_UnsupportedTypeIsEmpty ==
  UnsupportedNode =>
    /\ wd.pc = "done"
    /\ wd.contentRes = Value(EmptyContent)
    /\ wd.requests = <<"get_node">>
    /\ IsValue(wd.result)
    /\ wd.result.v.content = ""

C12_Witness ==
  /\ UnsupportedNode
  /\ WikiNode.obj_type = "bitable"
  /\ wd.result = Value([content |-> "", title |-> "T"])

\* ==================================================================
\* Properties of the batch download, continued (SpecDownload)
\* ==================================================================
\* C13: the per-document downloads of downloadSpaceDocuments are strictly
\* sequential: at most one remote request of the batch is in flight at any
\* time, and while the request of node idx is awaited the nodes before it
\* have all settled.
C13_Sequential ==
  /\ ds.inflight <= 1
  /\ ds.pc \in {"nodeInfoWait", "contentWait"} =>
       /\ ds.inflight = 1
       /\ Len(ds.dlResults) = ds.idx - 1

C13_Witness ==
  /\ ds.pc = "contentWait"
  /\ ds.idx = 2
  /\ Len(ds.docNodes) = 3
  /\ ds.inflight = 1

\* ==================================================================
\* Properties of the content conversion (SpecNormalize)
\* ==================================================================
\* The payload as the diagnostic text of line 105 writes it.
EmbeddedPayload ==
  IF norm.parsed.t = "undefined" THEN "undefined" ELSE Stringify(norm.parsed)

\* C14: processDocContent never raises: for every input, the JSON text "null"
\* and a block list with an entry that is no object included, it returns a
\* string; when the conversion failed the string is the diagnostic text, which
\* carries the error message and the payload.
C14_NeverRaises ==
  norm.pc = "done" =>
    /\ norm.out.kind = "string"
    /\ norm.threw =>
         norm.out.s = ErrorPrefix \o norm.msg \o OriginalPrefix \o EmbeddedPayload

C14_Witness ==
  /\ norm.pc = "done"
  /\ norm.input = JStr("null")
  /\ norm.threw
  /\ norm.out.s = ErrorPrefix \o "Cannot read properties of null (reading 'content')"
                    \o OriginalPrefix \o "null"

\* The rendering of one block as the specification words it.
ClaimedBlockText(b) ==
  LET type == Get(b, "type").s
      text == Get(b, "text").s
  IN CASE type = "paragraph" -> text \o "\n\n"
       [] type = "heading" ->
            Repeat("#", IF HasKey(b.o, "level") THEN Get(b, "level").n ELSE 1)
            \o " " \o text \o "\n\n"
       [] type = "code" ->
            Fence \o (IF HasKey(b.o, "language") THEN Get(b, "language").s ELSE "")
            \o "\n" \o text \o "\n" \o Fence \o "\n\n"
       [] type = "list" ->
            LET items == IF HasKey(b.o, "items") THEN Get(b, "items").a ELSE <<>>
            IN JoinWith([i \in 1..Len(items) |->
                           JStr("- " \o Get(items[i], "text").s \o "\n")], "")
               \o "\n"
       [] OTHER -> ""

RECURSIVE ClaimedBlocksText(_)
ClaimedBlocksText(bs) ==
  IF bs = <<>> THEN "" ELSE ClaimedBlockText(bs[1]) \o ClaimedBlocksText(Tail(bs))

\* Payloads with a list of blocks, each an object of a known or unknown kind.
WellFormedBlockPayloads == {BlockPayload(bs) : bs \in SeqsUpTo(Blocks, MaxBlocks)}

\* C15: for a payload with the block list b1..bn the result is the
\* concatenation, in order, of the renderings of the blocks: a paragraph gives
\* its text and a blank line; a heading `level` (default 1) hashes, a space,
\* its text and a blank line; a code block a fenced block tagged with its
\* language (empty when absent); a list one '- item' line per entry and a
\* blank line; any other kind nothing.  [paragraph "A", heading 2 "B"] gives
\* exactly "A\n\n## B\n\n".
C15_BlockRendering ==
  (norm.pc = "done" /\ norm.parsed \in WellFormedBlockPayloads) =>
    /\ norm.out =
         Returned(ClaimedBlocksText(Get(Get(norm.parsed, "content"), "blocks").a))
    /\ norm.parsed = BlockPayload(<<Paragraph("A"), Heading(2, "B")>>) =>
         norm.out.s = "A\n\n## B\n\n"

C15_Witness ==
  /\ norm.pc = "done"
  /\ norm.parsed = BlockPayload(<<Paragraph("A"), Heading(2, "B")>>)
  /\ norm.out = Returned("A\n\n## B\n\n")

\* The rendering of one sheet as the specification words it.
ClaimedSheetText(sheet) ==
  LET name == IF HasKey(sheet.o, "sheetName") THEN Get(sheet, "sheetName").s
              ELSE "Sheet"
      rows == Get(sheet, "values").a
      line(r) == "| " \o JoinWith(r.a, " | ") \o " |\n"
      dashes(r) == "| " \o JoinWith([i \in 1..Len(r.a) |-> JStr("---")], " | ") \o " |\n"
  IN "## " \o name \o "\n\n"
     \o (IF rows = <<>> THEN ""
         ELSE line(rows[1]) \o dashes(rows[1])
              \o JoinWith([i \in 1..(Len(rows) - 1) |-> JStr(line(rows[i + 1]))], "")
              \o "\n")

RECURSIVE ClaimedSheetsText(_)
ClaimedSheetsText(ss) ==
  IF ss = <<>> THEN "" ELSE ClaimedSheetText(ss[1]) \o ClaimedSheetsText(Tail(ss))

\* The sheet data of a payload.  part_000:79
SheetData(v) ==
  IF HasKey(v.o, "valueRange") THEN <<Get(v, "valueRange")>> ELSE Get(v, "sheets").a

\* Payloads with sheet data, each sheet an object with a list of rows.
WellFormedSheetPayloads ==
  {JObj(<<Prop("valueRange", sh)>>) : sh \in Sheets}
  \cup {SheetsPayload(ss) : ss \in SeqsUpTo(ListSheets \ {JNull}, MaxSheets)}

\* C16: for a payload with sheet data the result has, for every sheet, the
\* level-2 heading with the sheet's name (default "Sheet"), and for a sheet of
\* n >= 1 rows the table of n+1 lines (header, separator of c `---` cells,
\* n-1 data rows) and a blank line; a sheet of zero rows gives only its
\* heading.
C16_SheetRendering ==
  (norm.pc = "done" /\ norm.parsed \in WellFormedSheetPayloads) =>
    norm.out = Returned(ClaimedSheetsText(SheetData(norm.parsed)))

ExposesBlocks(v) ==
  /\ v.t = "object"
  /\ Get(v, "content").t = "object"
  /\ HasKey(Get(v, "content").o, "blocks")

ExposesSheets(v) ==
  /\ v.t = "object"
  /\ HasKey(v.o, "valueRange") \/ HasKey(v.o, "sheets")

\* The input was a value, or a text that JSON.parse accepted.
IsParsed == norm.input \in JsonValues \/ (norm.input.t = "string" /\ Parses(norm.input.s))

\* C17: for every parsed value with neither a block list nor sheet data (an
\* object whose `content` is a plain string, or an object without `blocks`,
\* included) the result is the 2-space-indented JSON rendering of the value,
\* which parses back to it; so the result is never empty.
C17_FallbackJson ==
  (norm.pc = "done" /\ IsParsed
     /\ ~ExposesBlocks(norm.parsed) /\ ~ExposesSheets(norm.parsed)) =>
    /\ norm.out = Returned(Stringify2(norm.parsed, 0))
    /\ JsonParse(norm.out.s) = norm.parsed
    /\ norm.out.s # ""

\* ==================================================================
\* Properties of the document store (SpecStore)
\* ==================================================================
\* C18: the k-th saveDocument stores and returns a record with id k (ids
\* start at 1, are unique and grow by one), whatever id the record handed in
\* carries, and the id field of every stored record equals the key it is
\* stored under; in both variants of the store.
C18_IdsAreKeys ==
  /\ DOMAIN db.documents = FirstDocId..(db.nextDocId - 1)
  /\ \A k \in DOMAIN db.documents : db.documents[k].id = k
  /\ db.last.op = "save" =>
       /\ db.last.returned.id = db.nextDocId - 1
       /\ db.documents[db.nextDocId - 1] = db.last.returned

\* C19: updateDocumentContent(id, content, path) with an unknown id raises
\* nothing and leaves the whole catalog as it was (no record created or
\* modified, the next id unchanged); with a known id it changes the content
\* and the path of that one record and nothing else.
C19_UpdateTouchesOneRecord ==
  [][db'.last.op = "update" =>
       LET id == db'.last.id
       IN /\ db'.nextDocId = db.nextDocId
          /\ DOMAIN db'.documents = DOMAIN db.documents
          /\ \A k \in DOMAIN db.documents :
               k # id => db'.documents[k] = db.documents[k]
          /\ id \in DOMAIN db.documents =>
               /\ db'.documents[id].id = db.documents[id].id
               /\ db'.documents[id].token = db.documents[id].token
               /\ db'.documents[id].name = db.documents[id].name
               /\ db'.documents[id].content = db'.last.content
               /\ db'.documents[id].path = db'.last.path]_vars

C19_Witness ==
  /\ db.last.op = "update"
  /\ db.last.id = 2
  /\ DOMAIN db.documents = {1}
  /\ db.documents[1].content = "c1"

\* ==================================================================
\* Properties of sanitizeFileName (SpecSanitize)
\* ==================================================================
\* C20: sanitizeFileName replaces every character of \ / : * ? " < > | by one
\* underscore and every maximal run of whitespace by one underscore, so the
\* result holds none of those characters and no whitespace ("a/b:c*d" gives
\* "a_b_c_d"), and sanitizing the result again changes nothing; for every
\* sanitizeFileName of the repository.
C20_SanitizedName ==
  san.pc = "done" =>
    /\ \A i \in 1..Len(san.out) : san.out[i] \notin Forbidden \cup Whitespace
    /\ (\A i \in 1..Len(san.name) : san.name[i] \notin Whitespace) =>
         /\ Len(san.out) = Len(san.name)
         /\ \A i \in 1..Len(san.name) :
              san.out[i] = IF san.name[i] \in Forbidden THEN "_" ELSE san.name[i]
    /\ san.name = ExampleName => san.out = <<"a", "_", "b", "_", "c", "_", "d">>
    /\ SanitizeFileName(san.variant, san.out) = san.out
\* C26: searchDocumentsByName(s) returns exactly the catalog documents whose
\* name contains s when both are compared in lower case, and the call leaves
\* the catalog (its documents and its next id) as it was.
NameContains(name, s) ==
  \E i \in 0..(Len(name) - Len(s)) :
    \A j \in 1..Len(s) : LowerChar(name[i + j]) = LowerChar(s[j])

C26_SearchByName ==
  /\ [](db.last.op = "search" =>
         db.last.returned =
           {d \in {db.documents[k] : k \in DOMAIN db.documents} :
              NameContains(d.name, db.last.query)})
  /\ [][db'.last.op = "search" =>
          /\ db'.documents = db.documents
          /\ db'.nextDocId = db.nextDocId]_vars

C26_Witness ==
  /\ db.last.op = "search"
  /\ db.last.query = <<"a", "b", "c">>
  /\ \E d \in db.last.returned : d.name = <<"A", "B", "C", "d", "e", "f">>
  /\ \E k \in DOMAIN db.documents : db.documents[k] \notin db.last.returned

\* C28: the cached token and the cached expiry are written together, from
\* one successful exchange response: in every reachable state, concurrent
\* refreshes included, the cache is either untouched or holds the token of
\* the response that last wrote it and the expiry computed from that same
\* response; a failed exchange leaves both as they were, so a cache that was
\* not valid stays not valid and the next getAccessToken sends an exchange.
CacheFromOneResponse ==
  IF lastGrant = None
  THEN accessToken = NoToken /\ tokenExpireTime = 0
  ELSE /\ lastGrant.response.kind = "body" /\ lastGrant.response.code = 0
       /\ accessToken = lastGrant.response.tenant_access_token
       /\ tokenExpireTime = ExpireTime(impl, lastGrant.at, lastGrant.response.expire)

FailedExchangeStep(p) ==
  /\ task[p].pc = "exchanging"
  /\ task'[p].pc = "returned" /\ IsError(task'[p].result)

C28_CachePairedWrites ==
  /\ []CacheFromOneResponse
  /\ [][\A p \in Tasks :
          /\ FailedExchangeStep(p) =>
                /\ accessToken' = accessToken
                /\ tokenExpireTime' = tokenExpireTime
                /\ ExchangeFailed(task'[p].exchange)
          /\ (accessToken' # accessToken \/ tokenExpireTime' # tokenExpireTime) =>
                \E q \in Tasks :
                  /\ task[q].pc = "exchanging" /\ task'[q].pc = "returned"
                  /\ task'[q].result = Value(accessToken')
                  /\ lastGrant' = [kind |-> "grant", response |-> task'[q].exchange,
                                   at |-> now]
          /\ (task[p].pc = "idle" /\ task'[p].pc # "idle"
                /\ ~TokenValid(accessToken, tokenExpireTime, now)) =>
                task'[p].pc = "exchanging"]_vars

\* C28 witness: two refreshes overlapped; one has written the cache, the
\* other failed afterwards and the cache still holds the pair of the grant.
C28_Witness ==
  \E p, q \in Tasks :
    /\ p # q
    /\ task[p].pc = "returned" /\ IsError(task[p].result)
    /\ task[q].pc = "returned" /\ IsValue(task[q].result)
    /\ task[q].issued = 1 /\ task[p].issued = 1
    /\ lastGrant # None /\ lastGrant.response = task[q].exchange
    /\ accessToken = task[q].result.v

\* ==================================================================
\* Properties of the paged listing (SpecPaging)
\* ==================================================================
RECURSIVE ItemsOfPages(_)
ItemsOfPages(log) ==
  IF log = <<>> THEN <<>>
  ELSE ItemsOfPages(SubSeq(log, 1, Len(log) - 1)) \o log[Len(log)].page.items

\* The listing requests sent so far: the answered ones and the one waiting.
ListingRequestsSent == Len(srv.log) + (IF ds.pc = "listWait" THEN 1 ELSE 0)

\* C27: against a server that serves p pages (has_more = true and a token on
\* every page but the last) downloadSpaceDocuments sends exactly p listing
\* requests, the first with the empty token and the i-th with the token of
\* page i - 1; the nodes it goes on with are the items of the p pages in
\* order; and no document download starts before the last listing request
\* has been answered.
C27_PagedListing ==
  /\ ds.listRequests = ListingRequestsSent
  /\ \A i \in DOMAIN srv.log :
       /\ srv.log[i].token = IF i = 1 THEN "" ELSE srv.log[i - 1].page.page_token
       /\ i < Len(srv.log) => srv.log[i].page.has_more
  /\ ds.pc = "listWait" => (ds.stage = "listing" /\ ds.idx = 0 /\
                             \A i \in DOMAIN srv.log : srv.log[i].page.has_more)
  /\ ds.stage # "listing" =>
       /\ srv.log # <<>>
       /\ ~srv.log[Len(srv.log)].page.has_more
       /\ ds.listRequests = Len(srv.log)
       /\ ds.allNodes = ItemsOfPages(srv.log)
  /\ (ds.pc \in {"nodeInfoWait", "contentWait"} \/ ds.idx > 0) =>
       (ds.stage # "listing" /\ ds.pc # "listWait")

\* C27 witness: three pages were served and asked for with "", "t1", "t2";
\* the batch has gone through the nodes of all three.
C27_Witness ==
  /\ ds.pc = "done"
  /\ Len(srv.log) = 3
  /\ <<srv.log[1].token, srv.log[2].token, srv.log[3].token>> = <<"", "t1", "t2">>
  /\ Len(ds.allNodes) = 4
  /\ ds.result.total = 3

\* ==================================================================
\* Properties of the batch against the server's answers (SpecBatch)
\* ==================================================================
DocumentTypes == {"doc", "sheet", "bitable"}

\* The listed nodes of exactly these types, in the order of the listing.
RECURSIVE DocumentNodes(_)
DocumentNodes(nodes) ==
  IF nodes = <<>> THEN <<>>
  ELSE (IF Head(nodes).obj_type \in DocumentTypes THEN <<Head(nodes)>> ELSE <<>>)
       \o DocumentNodes(Tail(nodes))

\* The answer to get_node names a node with its object token and type.
ResolutionSucceeded(e) ==
  /\ IsValue(e.info) /\ e.info.v.node # None
  /\ e.info.v.node.obj_token # "" /\ e.info.v.node.obj_type # ""

\* The attempt of log entry e ended in a raised error.
AttemptRaised(e) ==
  \/ IsError(e.info)                                 \* failed node resolution
  \/ IsValue(e.info) /\ ~ResolutionSucceeded(e)      \* incomplete node info
  \/ e.content # None /\ IsError(e.content)          \* rejected content fetch

LineBreaks(text) == {i \in DOMAIN text : text[i] = "\n"}
BreakNo(text, k) ==
  CHOOSE i \in LineBreaks(text) :
    Cardinality({j \in LineBreaks(text) : j < i}) = k - 1
LineCount(text) == Cardinality(LineBreaks(text)) + 1
LineNo(text, n) ==
  SubSeq(text,
         IF n = 1 THEN 1 ELSE BreakNo(text, n - 1) + 1,
         IF n = LineCount(text) THEN Len(text) ELSE BreakNo(text, n) - 1)

\* The line without the whitespace at its two ends.
Trimmed(line) ==
  LET inked == {i \in DOMAIN line : line[i] \notin Whitespace}
  IN IF inked = {} THEN <<>>
     ELSE SubSeq(line, CHOOSE i \in inked : \A j \in inked : i <= j,
                       CHOOSE i \in inked : \A j \in inked : j <= i)

MatchingLines(text, keyword) ==
  {n \in 1..LineCount(text) : NameContains(LineNo(text, n), keyword)}

\* A regular, readable file whose name ends in .md and that has a line with
\* the keyword in it.
Qualifies(e, keyword) ==
  /\ e.kind = "file" /\ e.readable
  /\ Len(e.path) > Len(DocsPath) /\ SubSeq(e.path, 1, Len(DocsPath)) = DocsPath
  /\ LET name == e.path[Len(e.path)]
     IN Len(name) >= 3 /\ SubSeq(name, Len(name) - 2, Len(name)) = <<".", "m", "d">>
  /\ MatchingLines(e.content, keyword) # {}

\* The entry is the one the claim describes for file e.
EntryFor(entry, e, keyword) ==
  /\ DocsPath \o entry.file = e.path
  /\ Len(entry.matches) = Cardinality(MatchingLines(e.content, keyword))
  /\ \A j \in DOMAIN entry.matches :
       /\ entry.matches[j].line \in MatchingLines(e.content, keyword)
       /\ j > 1 => entry.matches[j - 1].line < entry.matches[j].line
       /\ entry.matches[j].text = Trimmed(LineNo(e.content, entry.matches[j].line))

SanitizedTarget(w, sanitized) ==
  IF w.space = <<>> THEN DocsPath \o <<sanitized[w.title] \o DotMd>>
  ELSE DocsPath \o <<sanitized[w.space], sanitized[w.title] \o DotMd>>

Sanitizers ==
  {[n \in SpaceNames \cup SubFolders \cup Titles \cup {SpaceId, UntitledName,
                                                       UntitledName \o <<"_">> \o DocumentId}
      |-> SanitizeConverter(n)],
   [n \in SpaceNames \cup SubFolders \cup Titles \cup {SpaceId, UntitledName,
                                                       UntitledName \o <<"_">> \o DocumentId}
      |-> SanitizeServer(n)]}

C21_WritesUnderSanitizedSpace ==
  \A w \in fs.written :
    /\ Below(DocsPath, w.path)
    /\ \E sanitized \in Sanitizers : w.path = SanitizedTarget(w, sanitized)


\* ---------------------------------------------------------------------------
\* C24: when two documents of one space have titles that sanitize to the same
\* filename, both downloads complete without error (the second is not failed
\* by the file of the first, and both are counted as successes), exactly one
\* file exists at the resolved path afterwards, and its content is that of
\* the download whose write happened last.
Downloads == tool.call.log

SamePath(i, j) == i < j /\ Downloads[i].path = Downloads[j].path

LastWriteAt(path) ==
  LET written == {i \in DOMAIN Downloads : Downloads[i].ok /\ Downloads[i].path = path}
  IN CHOOSE i \in written : \A j \in written : j <= i

FilesAt(path) == {i \in DOMAIN fs.entries : fs.entries[i].path = path}

C24_LastWriteWins ==
  tool.call.op = "server.download-space-documents" =>
    /\ \A i, j \in DOMAIN Downloads :
         SamePath(i, j) /\ Downloads[i].ok /\ Downloads[j].fetched => Downloads[j].ok
    /\ tool.call.ok = Cardinality({i \in DOMAIN Downloads : Downloads[i].ok})
    /\ \A i \in DOMAIN Downloads :
         Downloads[i].ok =>
           /\ Cardinality(FilesAt(Downloads[i].path)) = 1
           /\ \A k \in FilesAt(Downloads[i].path) :
                /\ fs.entries[k].kind = "file"
                /\ fs.entries[k].content = Downloads[LastWriteAt(Downloads[i].path)].content

C24_Witness ==
  /\ tool.call.op = "server.download-space-documents"
  /\ tool.call.pc = "done"
  /\ tool.call.result = "success"
  /\ tool.call.ok = 2
  /\ Len(Downloads) = 2
  /\ SamePath(1, 2)
  /\ tool.call.nodes[1].title # tool.call.nodes[2].title
  /\ Downloads[1].content # Downloads[2].content
  /\ \E k \in FilesAt(Downloads[2].path) : fs.entries[k].content = Downloads[2].content


\* ---------------------------------------------------------------------------
\* C30: in the catalog-backed download tools a document's catalog record is
\* created before its content is fetched and its path is set only after its
\* Markdown file has been written: every record with a path set has a file
\* that was written at that path, an invocation that has reached the fetch or
\* has returned has its document in the catalog, and a document that was
\* counted as failed is in the catalog with no content and no path.
RecordsOf(token) == {k \in DOMAIN db.documents : db.documents[k].token = token}

Handled == tool.call.ok + tool.call.fail

C30_CatalogFollowsDownloads ==
  /\ \A k \in DOMAIN db.documents :
       db.documents[k].path # Undefined =>
         \E w \in fs.written : w.path = db.documents[k].path
  /\ tool.call.op = "catalog.download-document" /\ tool.call.pc \in {"content", "done"} =>
       /\ RecordsOf(tool.call.meta.token) # {}
       /\ tool.call.result = "failed" =>
            \E k \in RecordsOf(tool.call.meta.token) :
              /\ db.documents[k].content = Undefined
              /\ db.documents[k].path = Undefined
  /\ tool.call.op = "catalog.download-space-documents" =>
       \A i \in 1..Handled : RecordsOf(tool.call.nodes[i].token) # {}


\* ---------------------------------------------------------------------------
\* C23: after a restart of the process the catalog holds no spaces and no
\* documents and the next saveDocument assigns id 1, while every Markdown file
\* written before the restart is still on disk and is still returned by
\* search-documents when it matches the keyword.
RestartStep == tool'.restarts = tool.restarts + 1

CatalogEmpty(catalog) ==
  /\ catalog.spaces = {}
  /\ catalog.documents = <<>>
  /\ catalog.nextDocId = FirstDocId

FirstSaveAfterRestart ==
  /\ tool.restarts > 0
  /\ db.documents = <<>>
  /\ db' # db
  /\ db'.last.op = "save"

FileAt(disk, path) ==
  {disk.entries[i] : i \in {k \in DOMAIN disk.entries :
                              disk.entries[k].path = path /\ disk.entries[k].kind = "file"}}

WrittenBeforeRestart == {w.path : w \in tool.boot.written}

FilesOutliveRestart ==
  \A path \in WrittenBeforeRestart : Cardinality(FileAt(fs, path)) = 1

SearchAfterRestartFinds ==
  \A r \in DOMAIN tool.runs :
    tool.restarts > 0 =>
      \A path \in WrittenBeforeRestart :
        \A e \in FileAt(tool.runs[r].disk, path) :
          Qualifies(e, tool.keyword) =>
            Cardinality({i \in DOMAIN tool.runs[r].answer.matches :
                           EntryFor(tool.runs[r].answer.matches[i], e, tool.keyword)}) = 1

C23_RestartKeepsFilesOnly ==
  /\ [](tool.restarts > 0 => FilesOutliveRestart /\ SearchAfterRestartFinds)
  /\ [][RestartStep => CatalogEmpty(db') /\ fs'.entries = fs.entries]_vars
  /\ [][FirstSaveAfterRestart =>
          /\ db'.last.returned.id = FirstDocId
          /\ DOMAIN db'.documents = {FirstDocId}]_vars

\* C23 witness: a catalog with a document and a space folder file that matches
\* the keyword were there when the process was restarted; afterwards a
\* document was saved under id 1 and a search returned the file.
C23_Witness ==
  /\ tool.restarts = 1
  /\ tool.boot.docs > 0
  /\ db.last.op = "save" /\ db.last.returned.id = FirstDocId
  /\ tool.runs # <<>>
  /\ \E path \in WrittenBeforeRestart :
       /\ Len(path) = Len(DocsPath) + 2
       /\ \E e \in FileAt(tool.runs[Len(tool.runs)].disk, path) :
            /\ Qualifies(e, tool.keyword)
            /\ \E i \in DOMAIN tool.runs[Len(tool.runs)].answer.matches :
                 EntryFor(tool.runs[Len(tool.runs)].answer.matches[i], e, tool.keyword)

====
